---------------------------- MODULE Spec2Model ----------------------------
(***************************************************************************)
(* A model of the GEM strategy assistant: the momentum strategy, the       *)
(* composite market-data provider, the analysis workflow (CLI -> agent ->  *)
(* use case -> services) and the signal repository.                       *)
(***************************************************************************)
EXTENDS Integers, Sequences, FiniteSets, TLC

VARIABLES
    \* MomentumStrategy applied to one input
    price_data, ranking, previous_etf, signal,
    \* the two market-data sources and one call of the composite provider
    primary, fallback, md_request, md_result,
    \* the signals table, the Signal objects handed to save (history), and
    \* the outcome of the last get_latest and of the last get_history
    signals, saved, latest, history,
    \* the clock, the agent's workflow state and current node, what the
    \* front end shows, and (history) the signals table at the start of the
    \* invocation and a log of the last use-case execution
    clock, state, node, console, rows_before, last_run,
    \* the research_cache table, the UTC clock and the machine's UTC offset,
    \* (history) the last set of each key still in force, and the last get
    research_cache, cache_clock, tz, last_set, cache_got,
    \* one call of ResearchService.research_etf: its argument with the outcome of
    \* each step it may take, and what the call did
    research_request, research_result,
    \* one call of the composite search provider: the operation, num_results and
    \* what each source would answer; and what the call returned
    search_request, search_result,
    \* one run of the agent's task graph with the use cases taken as given: the
    \* public operation invoked, the workflow state, the node about to run, the
    \* nodes that ran, how the use case ended, and how the operation ended
    invocation, agent_state, agent_node, visited, use_case, outcome,
    \* the notification server process: the credentials its settings hold, its two
    \* lazily built client singletons, the last send_signal_all_channels call with
    \* what each channel's requests would meet, and how that call ended
    settings, sendgrid_client, pushover_client, notify_request, notify_outcome,
    \* the database files by path, the clock in seconds, and the last run of the
    \* module's run_migrations(db_path): its path, the run's number on that file,
    \* the file before it, how the run ended and the migrations it applied
    files, db_clock, migration_run,
    \* one construction of a MomentumRanking: the rankings tuple handed to it,
    \* and how the construction ended
    rankings_given, constructed,
    \* one fetch of an ETF's price history from a market-data source: the source
    \* with what each network attempt would meet, and how the fetch ended
    fetch_request, fetch_result,
    \* the last call of MigrationManager.get_schema_version: the path of the
    \* database, the version it returned, and the version the call before it
    \* returned for that path
    version_read,
    \* the last call of ResearchService.research_etf on a service with a cache:
    \* its arguments, when it was made, the cache before it, what its lookup,
    \* search and write-back met, the searches it made and what it returned
    service_call,
    \* the dashboard process: the module global _agent (0 for None), the number
    \* of MomentumAgents constructed so far, and for each request handler thread
    \* where it stands in get_agent and the agent it holds (0 for none)
    agent_global, agents_built, handler_pc, handler_agent,
    \* one agent instance over several runs: the checkpointed channel values per
    \* thread identifier, the number of runs started, and of the current run its
    \* config, what the checkpoint held when it began, the node about to run, the
    \* state, what its branch node wrote and what the public operation gave back
    checkpoints, thread_run, thread_config, held_before, thread_node, thread_state, branch_write, thread_outcome,
    \* the tool-invocation client adapter: where the current adapter call stands,
    \* the adapter method, the server process it spawned, the reply to its tool
    \* call, and the calls completed so far
    mcp_pc, mcp_method, mcp_server, mcp_reply, mcp_log

strategy_vars == <<price_data, ranking, previous_etf, signal>>
market_vars == <<primary, fallback, md_request, md_result>>
repo_vars == <<signals, saved, latest, history>>
run_vars == <<clock, state, node, console, rows_before, last_run>>
cache_vars == <<research_cache, cache_clock, tz, last_set, cache_got>>
research_vars == <<research_request, research_result>>
search_vars == <<search_request, search_result>>
agent_vars == <<invocation, agent_state, agent_node, visited, use_case, outcome>>
notify_vars == <<settings, sendgrid_client, pushover_client, notify_request, notify_outcome>>
migrate_vars == <<files, db_clock, migration_run>>
construct_vars == <<rankings_given, constructed>>
fetch_vars == <<fetch_request, fetch_result>>
schema_vars == <<version_read>>
service_vars == <<service_call>>
lazy_vars == <<agent_global, agents_built, handler_pc, handler_agent>>
thread_vars == <<checkpoints, thread_run, thread_config, held_before, thread_node, thread_state, branch_write, thread_outcome>>
mcp_vars == <<mcp_pc, mcp_method, mcp_server, mcp_reply, mcp_log>>
first_vars == <<strategy_vars, market_vars, repo_vars, run_vars>>
more_vars == <<cache_vars, research_vars, search_vars, agent_vars, notify_vars, migrate_vars, construct_vars, fetch_vars, schema_vars, service_vars, lazy_vars, thread_vars, mcp_vars>>
outside_cache == <<first_vars, research_vars, search_vars, agent_vars, notify_vars, migrate_vars, construct_vars, fetch_vars, schema_vars, service_vars, lazy_vars, thread_vars, mcp_vars>>
outside_research == <<first_vars, cache_vars, search_vars, agent_vars, notify_vars, migrate_vars, construct_vars, fetch_vars, schema_vars, service_vars, lazy_vars, thread_vars, mcp_vars>>
outside_search == <<first_vars, cache_vars, research_vars, agent_vars, notify_vars, migrate_vars, construct_vars, fetch_vars, schema_vars, service_vars, lazy_vars, thread_vars, mcp_vars>>
outside_agent == <<first_vars, cache_vars, research_vars, search_vars, notify_vars, migrate_vars, construct_vars, fetch_vars, schema_vars, service_vars, lazy_vars, thread_vars, mcp_vars>>
outside_notify == <<first_vars, cache_vars, research_vars, search_vars, agent_vars, migrate_vars, construct_vars, fetch_vars, schema_vars, service_vars, lazy_vars, thread_vars, mcp_vars>>
outside_migrate == <<first_vars, cache_vars, research_vars, search_vars, agent_vars, notify_vars, construct_vars, fetch_vars, schema_vars, service_vars, lazy_vars, thread_vars, mcp_vars>>
outside_construct == <<first_vars, cache_vars, research_vars, search_vars, agent_vars, notify_vars, migrate_vars, fetch_vars, schema_vars, service_vars, lazy_vars, thread_vars, mcp_vars>>
outside_fetch == <<first_vars, cache_vars, research_vars, search_vars, agent_vars, notify_vars, migrate_vars, construct_vars, schema_vars, service_vars, lazy_vars, thread_vars, mcp_vars>>
outside_schema == <<first_vars, cache_vars, research_vars, search_vars, agent_vars, notify_vars, migrate_vars, construct_vars, fetch_vars, service_vars, lazy_vars, thread_vars, mcp_vars>>
outside_service == <<first_vars, cache_vars, research_vars, search_vars, agent_vars, notify_vars, migrate_vars, construct_vars, fetch_vars, schema_vars, lazy_vars, thread_vars, mcp_vars>>
outside_lazy == <<first_vars, cache_vars, research_vars, search_vars, agent_vars, notify_vars, migrate_vars, construct_vars, fetch_vars, schema_vars, service_vars, thread_vars, mcp_vars>>
outside_thread == <<first_vars, cache_vars, research_vars, search_vars, agent_vars, notify_vars, migrate_vars, construct_vars, fetch_vars, schema_vars, service_vars, lazy_vars, mcp_vars>>
outside_mcp == <<first_vars, cache_vars, research_vars, search_vars, agent_vars, notify_vars, migrate_vars, construct_vars, fetch_vars, schema_vars, service_vars, lazy_vars, thread_vars>>
outside_cache_service == <<first_vars, research_vars, search_vars, agent_vars, notify_vars, migrate_vars, construct_vars, fetch_vars, schema_vars, lazy_vars, thread_vars, mcp_vars>>
vars == <<first_vars, more_vars>>

(***************************************************************************)
(* Bounds of the model.                                                    *)
(***************************************************************************)
MaxLen == 5        \* longest price_data list handed to calculate_ranking
MaxPrice == 2      \* prices are drawn from 1..MaxPrice
MaxSaves == 2      \* rows the signals table grows to
MaxTime == 3       \* clock readings are 0..MaxTime, in half seconds
MaxRuns == 2       \* invocations of one operation in one behaviour
TicksPerDay == 4   \* resolution of the research cache's clock: ticks of six hours
MaxClock == 5      \* the cache's and the database's clocks run over 0..MaxClock
MaxResults == 2    \* longest result list a search source answers with
MaxRows == 2       \* schema_version rows a database file starts with

(***************************************************************************)
(* domain/models.py                                                        *)
(***************************************************************************)
None == "None"                 \* an absent ETF / absent text
Absent == [absent |-> TRUE]    \* an absent object (ranking, signal, row)
NoReport == <<>>               \* Signal.report = None

\* class ETF(Enum): the closed catalog, in declaration (iteration) order
ETFOrder == <<"EIMI", "CNDX", "CBU0", "IB01">>
ETF == {ETFOrder[i] : i \in 1..Len(ETFOrder)}

Range(s) == {s[i] : i \in 1..Len(s)}
SeqsUpTo(S, n) == UNION {[1..k -> S] : k \in 0..n}

RECURSIVE GCD(_, _)
GCD(a, b) == IF b = 0 THEN a ELSE GCD(b, a % b)
Abs(x) == IF x < 0 THEN -x ELSE x

\* a float quotient n/d (d > 0), kept as the reduced fraction
Frac(n, d) ==
    LET g == GCD(Abs(n), d)
    IN  [num |-> n \div g, den |-> d \div g]

\* float comparison of two quotients
FloatLT(a, b) == a.num * b.den < b.num * a.den
FloatGT(a, b) == a.num * b.den > b.num * a.den

\* PriceData.__post_init__
PriceDataValid(pd) ==
    /\ pd.start_price > 0
    /\ pd.end_price > 0
    /\ pd.start_date < pd.end_date

\* PriceData.momentum
momentum(pd) == Frac(pd.end_price - pd.start_price, pd.start_price)

\* MomentumRanking.__post_init__ : the error raised, or None
MomentumRanking_post_init(rankings) ==
    IF Len(rankings) = 0 THEN "Rankings cannot be empty"
    ELSE IF Len(rankings) # Len(ETFOrder) THEN "Expected 4 ETFs in ranking"
    ELSE None

\* MomentumRanking.winner / winner_momentum
winner(rk) == rk.rankings[1][1]
winner_momentum(rk) == rk.rankings[1][2]

\* Signal.action
action(sig) ==
    IF ~sig.requires_rebalance THEN <<"HOLD", sig.recommended_etf>>
    ELSE IF sig.previous_etf # None
         THEN <<"SWITCH", sig.previous_etf, "->", sig.recommended_etf>>
         ELSE <<"BUY", sig.recommended_etf>>

(***************************************************************************)
(* domain/strategy.py : MomentumStrategy                                   *)
(***************************************************************************)
DateTolerance == 10

SetMax(S) == CHOOSE x \in S : \A y \in S : y <= x
SetMin(S) == CHOOSE x \in S : \A y \in S : x <= y

etfs_present(pds) == {pds[i].etf : i \in 1..Len(pds)}
etfs_missing(pds) == ETF \ etfs_present(pds)

\* len(etfs_in_data) != len(set(etfs_in_data))
has_duplicates(pds) == Len(pds) # Cardinality(etfs_present(pds))

start_diff(pds) ==
    SetMax({pds[i].start_date : i \in 1..Len(pds)})
        - SetMin({pds[i].start_date : i \in 1..Len(pds)})
end_diff(pds) ==
    SetMax({pds[i].end_date : i \in 1..Len(pds)})
        - SetMin({pds[i].end_date : i \in 1..Len(pds)})

periods_inconsistent_start_only(pds) == start_diff(pds) > DateTolerance
periods_inconsistent(pds) ==
    start_diff(pds) > DateTolerance \/ end_diff(pds) > DateTolerance

\* list.sort(key=lambda x: x[1], reverse=True): a stable descending sort.
\* x goes behind every entry whose key is >= its own.
insert_unstable(s, x) ==
    LET ahead == {i \in 1..Len(s) : FloatGT(s[i][2], x[2])}
        k == Cardinality(ahead)
    IN  SubSeq(s, 1, k) \o <<x>> \o SubSeq(s, k + 1, Len(s))
insert_desc(s, x) ==
    LET ahead == {i \in 1..Len(s) : ~FloatLT(s[i][2], x[2])}
        k == Cardinality(ahead)
    IN  SubSeq(s, 1, k) \o <<x>> \o SubSeq(s, k + 1, Len(s))

RECURSIVE sort_desc(_)
sort_desc(s) ==
    IF s = <<>> THEN <<>>
    ELSE insert_desc(sort_desc(SubSeq(s, 1, Len(s) - 1)), s[Len(s)])

calculate_ranking(pds, now) ==
    IF Len(pds) # Len(ETFOrder)
    THEN [ok |-> FALSE, error |-> "Missing data for ETFs",
          names |-> etfs_missing(pds)]
    ELSE IF has_duplicates(pds)
    THEN [ok |-> FALSE, error |-> "Duplicate ETF entries in price_data"]
    ELSE IF periods_inconsistent(pds)
    THEN [ok |-> FALSE, error |-> "Inconsistent analysis periods",
          start_diff |-> start_diff(pds), end_diff |-> end_diff(pds)]
    ELSE LET momentum_list == [i \in 1..Len(pds) |->
                                  <<pds[i].etf, momentum(pds[i])>>]
             rankings == sort_desc(momentum_list)
         IN  IF MomentumRanking_post_init(rankings) # None
             THEN [ok |-> FALSE, error |-> MomentumRanking_post_init(rankings)]
             ELSE [ok |-> TRUE, rankings |-> rankings,
                   period_start |-> pds[1].start_date,
                   period_end |-> pds[1].end_date,
                   calculated_at |-> now]

requires_rebalance_first_only(win, prev) == prev = None
requires_rebalance(win, prev) == prev = None \/ win # prev

generate_signal(rk, prev, now) ==
    [recommended_etf |-> winner(rk),
     ranking |-> rk,
     previous_etf |-> prev,
     requires_rebalance |-> requires_rebalance(winner(rk), prev),
     created_at |-> now,
     report |-> NoReport]

\* the closing section of the explanation text
get_explanation(sig) ==
    IF sig.requires_rebalance
    THEN IF sig.previous_etf # None
         THEN <<"Rekomendacja", sig.recommended_etf, "WYMAGANA ZMIANA POZYCJI",
                "Sprzedaj", sig.previous_etf, "Kup", sig.recommended_etf>>
         ELSE <<"Rekomendacja", sig.recommended_etf, "NOWA POZYCJA",
                "Kup", sig.recommended_etf>>
    ELSE <<"Rekomendacja", sig.recommended_etf, "BEZ ZMIAN",
           "Trzymaj", sig.recommended_etf>>

(***************************************************************************)
(* The strategy applied to one input list.                                 *)
(***************************************************************************)
Prices == 1..MaxPrice
Skews == {0, DateTolerance, DateTolerance + 1}



\* a list of any catalog ETFs with flat prices, whose observation at
\* position p starts ds days and ends de days after the others
ValidationInput(etfs, p, ds, de) ==
    [i \in 1..Len(etfs) |->
        [etf |-> etfs[i],
         start_date |-> 0 + (IF i = p THEN ds ELSE 0),
         end_date |-> 365 + (IF i = p THEN de ELSE 0),
         start_price |-> 1, end_price |-> 1]]

Permutations4 ==
    {s \in [1..Len(ETFOrder) -> ETF] : Cardinality(Range(s)) = Len(ETFOrder)}

\* one observation per catalog ETF in the order etfs, same dates
RankingInput(etfs, sp, ep) ==
    [i \in 1..Len(ETFOrder) |->
        [etf |-> etfs[i], start_date |-> 0, end_date |-> 365,
         start_price |-> sp[i], end_price |-> ep[i]]]

StrategyIdle ==
    /\ price_data = <<>>
    /\ ranking = Absent
    /\ previous_etf = None
    /\ signal = Absent

RepoIdle ==
    /\ signals = <<>>
    /\ saved = <<>>
    /\ latest = [called |-> FALSE]
    /\ history = [called |-> FALSE]

RunIdle ==
    /\ clock = 0
    /\ state = Absent
    /\ node = "idle"
    /\ console = Absent
    /\ rows_before = <<>>
    /\ last_run = Absent

MarketIdle ==
    /\ primary = <<>>
    /\ fallback = <<>>
    /\ md_request = Absent
    /\ md_result = Absent

CacheIdle ==
    /\ research_cache = <<>>
    /\ cache_clock = 0
    /\ tz = 0
    /\ last_set = <<>>
    /\ cache_got = [called |-> FALSE]

ResearchIdle ==
    /\ research_request = Absent
    /\ research_result = Absent

SearchIdle ==
    /\ search_request = Absent
    /\ search_result = Absent

AgentIdle ==
    /\ invocation = Absent
    /\ agent_state = Absent
    /\ agent_node = "idle"
    /\ visited = <<>>
    /\ use_case = Absent
    /\ outcome = Absent

NotifyIdle ==
    /\ settings = Absent
    /\ sendgrid_client = None
    /\ pushover_client = None
    /\ notify_request = Absent
    /\ notify_outcome = Absent

MigrateIdle ==
    /\ files = <<>>
    /\ db_clock = 0
    /\ migration_run = Absent

ConstructIdle ==
    /\ rankings_given = <<>>
    /\ constructed = Absent

FetchIdle ==
    /\ fetch_request = Absent
    /\ fetch_result = Absent

SchemaIdle ==
    /\ version_read = Absent

ServiceIdle ==
    /\ service_call = Absent

LazyIdle ==
    /\ agent_global = 0
    /\ agents_built = 0
    /\ handler_pc = <<>>
    /\ handler_agent = <<>>

ThreadIdle ==
    /\ checkpoints = <<>>
    /\ thread_run = 0
    /\ thread_config = Absent
    /\ held_before = Absent
    /\ thread_node = "idle"
    /\ thread_state = Absent
    /\ branch_write = Absent
    /\ thread_outcome = Absent

McpIdle ==
    /\ mcp_pc = "idle"
    /\ mcp_method = None
    /\ mcp_server = None
    /\ mcp_reply = Absent
    /\ mcp_log = <<>>

FirstIdle == StrategyIdle /\ MarketIdle /\ RepoIdle /\ RunIdle

MoreIdle == CacheIdle /\ ResearchIdle /\ SearchIdle /\ AgentIdle /\ NotifyIdle /\ MigrateIdle /\ ConstructIdle /\ FetchIdle /\ SchemaIdle /\ ServiceIdle /\ LazyIdle /\ ThreadIdle /\ McpIdle

OutsideCacheIdle == FirstIdle /\ ResearchIdle /\ SearchIdle /\ AgentIdle /\ NotifyIdle /\ MigrateIdle /\ ConstructIdle /\ FetchIdle /\ SchemaIdle /\ ServiceIdle /\ LazyIdle /\ ThreadIdle /\ McpIdle

OutsideResearchIdle == FirstIdle /\ CacheIdle /\ SearchIdle /\ AgentIdle /\ NotifyIdle /\ MigrateIdle /\ ConstructIdle /\ FetchIdle /\ SchemaIdle /\ ServiceIdle /\ LazyIdle /\ ThreadIdle /\ McpIdle

OutsideSearchIdle == FirstIdle /\ CacheIdle /\ ResearchIdle /\ AgentIdle /\ NotifyIdle /\ MigrateIdle /\ ConstructIdle /\ FetchIdle /\ SchemaIdle /\ ServiceIdle /\ LazyIdle /\ ThreadIdle /\ McpIdle

OutsideAgentIdle == FirstIdle /\ CacheIdle /\ ResearchIdle /\ SearchIdle /\ NotifyIdle /\ MigrateIdle /\ ConstructIdle /\ FetchIdle /\ SchemaIdle /\ ServiceIdle /\ LazyIdle /\ ThreadIdle /\ McpIdle

OutsideNotifyIdle == FirstIdle /\ CacheIdle /\ ResearchIdle /\ SearchIdle /\ AgentIdle /\ MigrateIdle /\ ConstructIdle /\ FetchIdle /\ SchemaIdle /\ ServiceIdle /\ LazyIdle /\ ThreadIdle /\ McpIdle

OutsideMigrateIdle == FirstIdle /\ CacheIdle /\ ResearchIdle /\ SearchIdle /\ AgentIdle /\ NotifyIdle /\ ConstructIdle /\ FetchIdle /\ SchemaIdle /\ ServiceIdle /\ LazyIdle /\ ThreadIdle /\ McpIdle

OutsideConstructIdle == FirstIdle /\ CacheIdle /\ ResearchIdle /\ SearchIdle /\ AgentIdle /\ NotifyIdle /\ MigrateIdle /\ FetchIdle /\ SchemaIdle /\ ServiceIdle /\ LazyIdle /\ ThreadIdle /\ McpIdle

OutsideFetchIdle == FirstIdle /\ CacheIdle /\ ResearchIdle /\ SearchIdle /\ AgentIdle /\ NotifyIdle /\ MigrateIdle /\ ConstructIdle /\ SchemaIdle /\ ServiceIdle /\ LazyIdle /\ ThreadIdle /\ McpIdle

OutsideSchemaIdle == FirstIdle /\ CacheIdle /\ ResearchIdle /\ SearchIdle /\ AgentIdle /\ NotifyIdle /\ MigrateIdle /\ ConstructIdle /\ FetchIdle /\ ServiceIdle /\ LazyIdle /\ ThreadIdle /\ McpIdle

OutsideServiceIdle == FirstIdle /\ CacheIdle /\ ResearchIdle /\ SearchIdle /\ AgentIdle /\ NotifyIdle /\ MigrateIdle /\ ConstructIdle /\ FetchIdle /\ SchemaIdle /\ LazyIdle /\ ThreadIdle /\ McpIdle

OutsideLazyIdle == FirstIdle /\ CacheIdle /\ ResearchIdle /\ SearchIdle /\ AgentIdle /\ NotifyIdle /\ MigrateIdle /\ ConstructIdle /\ FetchIdle /\ SchemaIdle /\ ServiceIdle /\ ThreadIdle /\ McpIdle

OutsideThreadIdle == FirstIdle /\ CacheIdle /\ ResearchIdle /\ SearchIdle /\ AgentIdle /\ NotifyIdle /\ MigrateIdle /\ ConstructIdle /\ FetchIdle /\ SchemaIdle /\ ServiceIdle /\ LazyIdle /\ McpIdle

OutsideMcpIdle == FirstIdle /\ CacheIdle /\ ResearchIdle /\ SearchIdle /\ AgentIdle /\ NotifyIdle /\ MigrateIdle /\ ConstructIdle /\ FetchIdle /\ SchemaIdle /\ ServiceIdle /\ LazyIdle /\ ThreadIdle

StrategyInit ==
    /\ \/ \E etfs \in SeqsUpTo(ETF, MaxLen) :
          \E p \in 1..MaxLen : \E ds \in Skews : \E de \in Skews :
             price_data = ValidationInput(etfs, p, ds, de)
       \/ \E etfs \in Permutations4 :
          \E sp \in [1..Len(ETFOrder) -> Prices] :
          \E ep \in [1..Len(ETFOrder) -> Prices] :
             price_data = RankingInput(etfs, sp, ep)
    /\ ranking = Absent
    /\ previous_etf = None
    /\ signal = Absent
    /\ MarketIdle
    /\ RepoIdle
    /\ RunIdle
    /\ MoreIdle

CalculateRanking ==
    /\ ranking = Absent
    /\ ranking' = calculate_ranking(price_data, 0)
    /\ UNCHANGED <<price_data, previous_etf, signal, market_vars, repo_vars, run_vars, more_vars>>

GenerateSignal ==
    /\ ranking # Absent
    /\ ranking.ok
    /\ signal = Absent
    /\ \E prev \in ETF \cup {None} :
          /\ previous_etf' = prev
          /\ signal' = generate_signal(ranking, prev, 0)
    /\ UNCHANGED <<price_data, ranking, market_vars, repo_vars, run_vars, more_vars>>

StrategyNext == CalculateRanking \/ GenerateSignal

SpecStrategy == StrategyInit /\ [][StrategyNext]_vars

(***************************************************************************)
(* infrastructure/market_data : the two sources and the composite          *)
(***************************************************************************)
\* What one source does for one ETF: it returns an observation, raises its
\* own error (StooqError / YahooFinanceError), or raises another exception
\* (a KeyError on the frame, the ValueError of PriceData.__post_init__).
Ok(pd) == [kind |-> "ok", data |-> pd]
Fails(kind) == [kind |-> kind]

\* StooqProvider.get_all_etf_data / YahooFinanceProvider.get_all_etf_data:
\* the ETFs in catalog order; with fail_fast the first failure is raised as
\* the source's own error, without it failures are skipped.
RECURSIVE source_batch(_, _, _, _)
source_batch(src, fail_fast, own_error, i) ==
    IF i > Len(ETFOrder) THEN [raised |-> FALSE, data |-> <<>>, asked |-> <<>>]
    ELSE LET e == ETFOrder[i]
             rest == source_batch(src, fail_fast, own_error, i + 1)
         IN  IF src[e].kind = "ok"
             THEN IF rest.raised
                  THEN [rest EXCEPT !.asked = <<e>> \o @]
                  ELSE [rest EXCEPT !.data = <<src[e].data>> \o @,
                                    !.asked = <<e>> \o @]
             ELSE IF fail_fast
                  THEN [raised |-> TRUE, kind |-> own_error, asked |-> <<e>>,
                        names |-> {}]
                  ELSE [rest EXCEPT !.asked = <<e>> \o @]

\* which failures of the primary make get_price_data try the fallback:
\* `except StooqError`
primary_caught_any(kind) == TRUE
primary_caught(kind) == kind = "StooqError"

\* `except YahooFinanceError`
fallback_caught(kind) == kind = "YahooFinanceError"

\* CompositeMarketDataProvider.get_price_data
composite_get_price_data(prim, fb, e) ==
    IF prim[e].kind = "ok"
    THEN [raised |-> FALSE, data |-> prim[e].data, asked |-> <<>>]
    ELSE IF ~primary_caught(prim[e].kind)
    THEN [raised |-> TRUE, kind |-> prim[e].kind, names |-> {},
          asked |-> <<>>]
    ELSE IF fb[e].kind = "ok"
    THEN [raised |-> FALSE, data |-> fb[e].data, asked |-> <<e>>]
    ELSE IF fallback_caught(fb[e].kind)
    THEN [raised |-> TRUE, kind |-> "Exception",
          names |-> {"Stooq", "Yahoo"}, asked |-> <<e>>]
    ELSE [raised |-> TRUE, kind |-> fb[e].kind, names |-> {},
          asked |-> <<e>>]

\* the per-ETF recovery loop: `for etf in missing_etfs`, in the order the
\* set yields them
RECURSIVE recover_missing(_, _)
recover_missing(fb, order) ==
    IF order = <<>> THEN <<>>
    ELSE (IF fb[Head(order)].kind = "ok" THEN <<fb[Head(order)].data>>
          ELSE <<>>) \o recover_missing(fb, Tail(order))

\* `if len(data) < len(ETF) and not fail_fast`
recovers_missing_always(data, fail_fast) == Len(data) < Len(ETFOrder)
recovers_missing(data, fail_fast) == Len(data) < Len(ETFOrder) /\ ~fail_fast

\* CompositeMarketDataProvider.get_all_etf_data; order is the iteration
\* order of the set of missing ETFs
composite_get_all_etf_data(prim, fb, fail_fast, order) ==
    LET first == source_batch(prim, FALSE, "StooqError", 1)
    IN  IF ~first.raised /\ first.data # <<>>
        THEN IF recovers_missing(first.data, fail_fast)
             THEN [raised |-> FALSE,
                   data |-> first.data \o recover_missing(fb, order),
                   asked |-> order]
             ELSE [raised |-> FALSE, data |-> first.data, asked |-> <<>>]
        ELSE LET second == source_batch(fb, fail_fast, "YahooFinanceError", 1)
             IN  IF second.raised
                 THEN IF fail_fast
                      THEN [raised |-> TRUE, kind |-> "Exception",
                            names |-> {}, asked |-> second.asked]
                      ELSE [raised |-> FALSE, data |-> <<>>,
                            asked |-> second.asked]
                 ELSE second

Orders(S) == {s \in [1..Cardinality(S) -> S] : Range(s) = S}

\* the observation a source returns for an ETF; the two sources differ in
\* the first trading day they report
StooqQuote(e) ==
    [etf |-> e, start_date |-> 0, end_date |-> 365,
     start_price |-> 1, end_price |-> 1]
YahooQuote(e) ==
    [etf |-> e, start_date |-> 1, end_date |-> 365,
     start_price |-> 1, end_price |-> 1]

PrimaryOutcomes(e) ==
    {Ok(StooqQuote(e)), Fails("StooqError"), Fails("ValueError")}
FallbackOutcomes(e) ==
    {Ok(YahooQuote(e)), Fails("YahooFinanceError"), Fails("ValueError")}

MarketInit ==
    /\ primary \in {f \in [ETF -> UNION {PrimaryOutcomes(e) : e \in ETF}] :
                       \A e \in ETF : f[e] \in PrimaryOutcomes(e)}
    /\ fallback \in {f \in [ETF -> UNION {FallbackOutcomes(e) : e \in ETF}] :
                       \A e \in ETF : f[e] \in FallbackOutcomes(e)}
    /\ md_request = Absent
    /\ md_result = Absent
    /\ StrategyIdle
    /\ RepoIdle
    /\ RunIdle
    /\ MoreIdle

GetPriceData ==
    /\ md_request = Absent
    /\ \E e \in ETF :
          /\ md_request' = [op |-> "get_price_data", etf |-> e]
          /\ md_result' = composite_get_price_data(primary, fallback, e)
    /\ UNCHANGED <<primary, fallback, strategy_vars, repo_vars, run_vars, more_vars>>

GetAllEtfData ==
    /\ md_request = Absent
    /\ \E fail_fast \in BOOLEAN :
       \E order \in Orders(ETF \ {e \in ETF : primary[e].kind = "ok"}) :
          /\ md_request' = [op |-> "get_all_etf_data", fail_fast |-> fail_fast]
          /\ md_result' =
                composite_get_all_etf_data(primary, fallback, fail_fast, order)
    /\ UNCHANGED <<primary, fallback, strategy_vars, repo_vars, run_vars, more_vars>>

MarketNext == GetPriceData \/ GetAllEtfData

SpecMarket == MarketInit /\ [][MarketNext]_vars

(***************************************************************************)
(* infrastructure/persistence/repositories.py : SignalRepository           *)
(***************************************************************************)
\* datetime.isoformat() of a clock reading t (half seconds): the seconds,
\* then the fraction, which is left out when the microsecond is 0.  The
\* text is a sequence of fixed-width fields.
isoformat(t) ==
    IF t % 2 = 0 THEN <<t \div 2>> ELSE <<t \div 2, (t % 2) * 500000>>

\* datetime.fromisoformat()
fromisoformat(txt) ==
    IF Len(txt) = 1 THEN txt[1] * 2 ELSE txt[1] * 2 + txt[2] \div 500000

\* isoformat / fromisoformat of the period dates (day numbers, midnight)
date_isoformat(d) == <<d>>
date_fromisoformat(txt) == txt[1]

\* SQLite's comparison of two TEXT values (memcmp, the shorter prefix first)
RECURSIVE TextLT(_, _)
TextLT(a, b) ==
    IF b = <<>> THEN FALSE
    ELSE IF a = <<>> THEN TRUE
    ELSE IF Head(a) # Head(b) THEN Head(a) < Head(b)
    ELSE TextLT(Tail(a), Tail(b))

\* MomentumRanking.to_dict, as json.dumps / json.loads reproduce it
to_dict(rk) ==
    [rankings |-> rk.rankings,
     period_start |-> date_isoformat(rk.period_start),
     period_end |-> date_isoformat(rk.period_end),
     calculated_at |-> isoformat(rk.calculated_at),
     winner |-> winner(rk),
     winner_momentum |-> winner_momentum(rk)]

\* the row SignalRepository.save inserts
signal_row(sig, id) ==
    [id |-> id,
     created_at |-> isoformat(sig.created_at),
     recommended_etf |-> sig.recommended_etf,
     previous_etf |-> IF sig.previous_etf # None THEN sig.previous_etf
                      ELSE "NULL",
     requires_rebalance |-> IF sig.requires_rebalance THEN 1 ELSE 0,
     winner_momentum |-> winner_momentum(sig.ranking),
     ranking_json |-> to_dict(sig.ranking),
     report |-> sig.report,
     period_start |-> date_isoformat(sig.ranking.period_start),
     period_end |-> date_isoformat(sig.ranking.period_end)]

\* SignalRepository.save: INSERT with an AUTOINCREMENT id
repo_save(rows, sig) == Append(rows, signal_row(sig, Len(rows) + 1))

\* SignalRepository._row_to_signal
row_to_signal(row) ==
    [recommended_etf |-> row.recommended_etf,
     ranking |-> [ok |-> TRUE,
                  rankings |-> row.ranking_json.rankings,
                  period_start |->
                      date_fromisoformat(row.ranking_json.period_start),
                  period_end |->
                      date_fromisoformat(row.ranking_json.period_end),
                  calculated_at |->
                      fromisoformat(row.ranking_json.calculated_at)],
     previous_etf |-> IF row.previous_etf # "NULL" THEN row.previous_etf
                      ELSE None,
     requires_rebalance |-> row.requires_rebalance # 0,
     created_at |-> fromisoformat(row.created_at),
     report |-> row.report]

\* ORDER BY created_at DESC LIMIT 1: the rows that may come first (SQL
\* leaves the order among equal keys open)
first_rows_asc(rows) ==
    {i \in 1..Len(rows) :
        \A j \in 1..Len(rows) : ~TextLT(rows[j].created_at, rows[i].created_at)}
first_rows_desc(rows) ==
    {i \in 1..Len(rows) :
        \A j \in 1..Len(rows) : ~TextLT(rows[i].created_at, rows[j].created_at)}

\* ORDER BY created_at DESC over the whole table: the orders in which the
\* rows may be listed
rows_asc(rows) ==
    {o \in Orders(1..Len(rows)) :
        \A k \in 1..(Len(rows) - 1) :
           ~TextLT(rows[o[k + 1]].created_at, rows[o[k]].created_at)}
rows_desc(rows) ==
    {o \in Orders(1..Len(rows)) :
        \A k \in 1..(Len(rows) - 1) :
           ~TextLT(rows[o[k]].created_at, rows[o[k + 1]].created_at)}

\* LIMIT n: the first n of the listed rows, all of them when n is negative
sql_limit(listed, n) ==
    IF n < 0 \/ n >= Len(listed) THEN listed ELSE SubSeq(listed, 1, n)

\* SignalRepository.get_history: the lists it may return
get_history(rows, limit) ==
    {[k \in 1..Len(sql_limit(o, limit)) |-> row_to_signal(rows[o[k]])] :
        o \in rows_desc(rows)}

(***************************************************************************)
(* The repository under any sequence of saves.                             *)
(***************************************************************************)
\* the limits get_history is called with
Limits == 0..(MaxSaves + 1)

Times == 0..MaxTime

\* rankings the strategy computes from a market in which one ETF rose
HotQuote(q, hot) == [q EXCEPT !.end_price = IF q.etf = hot THEN 2 ELSE 1]
HotRanking(hot, t) ==
    calculate_ranking([i \in 1..Len(ETFOrder) |->
                          HotQuote(StooqQuote(ETFOrder[i]), hot)], t)

RepoInit ==
    /\ signals = <<>>
    /\ saved = <<>>
    /\ latest = [called |-> FALSE]
    /\ history = [called |-> FALSE]
    /\ StrategyIdle
    /\ MarketIdle
    /\ RunIdle
    /\ MoreIdle

Save ==
    /\ Len(signals) < MaxSaves
    /\ \E hot \in {"EIMI", "CNDX"} : \E prev \in {None, "EIMI"} :
       \E t \in Times :
          LET sig == generate_signal(HotRanking(hot, t), prev, t)
          IN  /\ signals' = repo_save(signals, sig)
              /\ saved' = Append(saved, sig)
    /\ latest' = [called |-> FALSE]
    /\ history' = [called |-> FALSE]
    /\ UNCHANGED <<strategy_vars, market_vars, run_vars, more_vars>>

GetLatest ==
    /\ ~latest.called
    /\ IF signals = <<>>
       THEN latest' = [called |-> TRUE, value |-> Absent]
       ELSE \E i \in first_rows_desc(signals) :
               latest' = [called |-> TRUE, value |-> row_to_signal(signals[i])]
    /\ UNCHANGED <<signals, saved, history, strategy_vars, market_vars, run_vars, more_vars>>

GetHistory ==
    /\ ~history.called
    /\ \E limit \in Limits : \E listed \in get_history(signals, limit) :
          history' = [called |-> TRUE, limit |-> limit, value |-> listed]
    /\ UNCHANGED <<signals, saved, latest, strategy_vars, market_vars, run_vars, more_vars>>

RepoNext == Save \/ GetLatest \/ GetHistory

SpecRepo == RepoInit /\ [][RepoNext]_vars

(***************************************************************************)
(* infrastructure/persistence/repositories.py : ResearchCacheRepository    *)
(***************************************************************************)
\* Instants are ticks of the UTC clock.  A timestamp text is the date, the
\* separator byte and the time of day; days are counted so that local times
\* of the first day are not negative.
DayOf(t) == (t + TicksPerDay) \div TicksPerDay
TimeOfDay(t) == (t + TicksPerDay) % TicksPerDay

\* datetime.isoformat(): "YYYY-MM-DDTHH:MM:SS.ffffff" (separator "T", byte 84)
local_isoformat(t) == <<DayOf(t), 84, TimeOfDay(t)>>

\* SQLite datetime('now'): "YYYY-MM-DD HH:MM:SS" in UTC (separator " ", byte 32)
sqlite_datetime(t) == <<DayOf(t), 32, TimeOfDay(t)>>

\* ttl_hours, at its default of 24 hours
ttl == TicksPerDay

json_dumps(p) == <<"json", p>>
json_loads(txt) == txt[2]

\* the expiry text set() stores: local time plus the ttl, in isoformat
expires_at(utc, offset) == local_isoformat(utc + offset + ttl)

\* ResearchCacheRepository.set: INSERT OR REPLACE on the unique etf_name
cache_set(tbl, k, p, utc, offset) ==
    [tbl EXCEPT ![k] = [research_data |-> json_dumps(p),
                        created_at |-> sqlite_datetime(utc),
                        expires_at |-> expires_at(utc, offset)]]

\* WHERE expires_at > datetime('now')
unexpired(row, utc) == TextLT(sqlite_datetime(utc), row.expires_at)

\* ResearchCacheRepository.get
cache_get(tbl, k, utc) ==
    IF tbl[k] # Absent /\ unexpired(tbl[k], utc)
    THEN json_loads(tbl[k].research_data) ELSE Absent

\* ResearchCacheRepository.delete
cache_delete(tbl, k) == [tbl EXCEPT ![k] = Absent]

\* ResearchCacheRepository.clear_expired
clear_expired(tbl, utc) ==
    [k \in DOMAIN tbl |->
        IF tbl[k] # Absent /\ ~unexpired(tbl[k], utc) THEN Absent ELSE tbl[k]]

\* ResearchCacheRepository.clear_all
clear_all(tbl) == [k \in DOMAIN tbl |-> Absent]

(***************************************************************************)
(* The research cache under any sequence of its operations.                *)
(***************************************************************************)
CacheKeys == {"EIMI", "CNDX"}
Payloads == {[context |-> "general"], [context |-> "news"]}

\* the local clock runs twelve hours behind UTC, with it, or twelve hours ahead
Offsets == {0 - (TicksPerDay \div 2), 0, TicksPerDay \div 2}

CacheInit ==
    /\ research_cache = [k \in CacheKeys |-> Absent]
    /\ cache_clock = 0
    /\ tz \in Offsets
    /\ last_set = [k \in CacheKeys |-> Absent]
    /\ cache_got = [called |-> FALSE]
    /\ OutsideCacheIdle

CacheSet ==
    /\ \E k \in CacheKeys : \E p \in Payloads :
          /\ research_cache' = cache_set(research_cache, k, p, cache_clock, tz)
          /\ last_set' = [last_set EXCEPT
                             ![k] = [at |-> cache_clock, payload |-> p]]
    /\ cache_got' = [called |-> FALSE]
    /\ UNCHANGED <<cache_clock, tz, outside_cache>>

CacheGet ==
    /\ \E k \in CacheKeys :
          cache_got' = [called |-> TRUE, key |-> k, at |-> cache_clock,
                        value |-> cache_get(research_cache, k, cache_clock)]
    /\ UNCHANGED <<research_cache, cache_clock, tz, last_set, outside_cache>>

CacheDelete ==
    /\ \E k \in CacheKeys :
          /\ research_cache' = cache_delete(research_cache, k)
          /\ last_set' = [last_set EXCEPT ![k] = Absent]
    /\ cache_got' = [called |-> FALSE]
    /\ UNCHANGED <<cache_clock, tz, outside_cache>>

CacheClearExpired ==
    /\ research_cache' = clear_expired(research_cache, cache_clock)
    /\ last_set' = [k \in CacheKeys |->
                       IF research_cache'[k] = Absent THEN Absent
                       ELSE last_set[k]]
    /\ cache_got' = [called |-> FALSE]
    /\ UNCHANGED <<cache_clock, tz, outside_cache>>

CacheClearAll ==
    /\ research_cache' = clear_all(research_cache)
    /\ last_set' = [k \in CacheKeys |-> Absent]
    /\ cache_got' = [called |-> FALSE]
    /\ UNCHANGED <<cache_clock, tz, outside_cache>>

CacheTick ==
    /\ cache_clock < MaxClock
    /\ cache_clock' = cache_clock + 1
    /\ cache_got' = [called |-> FALSE]
    /\ UNCHANGED <<research_cache, tz, last_set, outside_cache>>

CacheNext ==
    \/ CacheSet
    \/ CacheGet
    \/ CacheDelete
    \/ CacheClearExpired
    \/ CacheClearAll
    \/ CacheTick

SpecCache == CacheInit /\ [][CacheNext]_vars

(***************************************************************************)
(* application/services.py : ResearchService.research_etf                  *)
(***************************************************************************)
display_name ==
    [EIMI |-> "iShares EM IMI (EIMI)", CNDX |-> "iShares NASDAQ 100 (CNDX)",
     CBU0 |-> "iShares Treasury 7-10Y (CBU0)",
     IB01 |-> "iShares Treasury 0-1Y (IB01)"]
ticker_yfinance ==
    [EIMI |-> "EIMI.L", CNDX |-> "CNDX.L", CBU0 |-> "CBU0.L", IB01 |-> "IB01.L"]

\* a step of the call either returns a value or raises with a message
Returns(v) == [raises |-> FALSE, value |-> v]
Raises(msg) == [raises |-> TRUE, message |-> msg]

\* Python truthiness of what the cache answered: None and {} are falsy
cached_truthy(c) == c # Absent /\ c # [empty |-> TRUE]

\* the inline error payload
error_payload(etf, msg) ==
    [error |-> msg, etf_name |-> display_name[etf],
     etf_ticker |-> ticker_yfinance[etf]]

\* the guarded part: the search and the write-back to the cache
research_guarded(etf, search, cache_write) ==
    IF search.raises THEN Returns(error_payload(etf, search.message))
    ELSE IF cache_write.raises
    THEN Returns(error_payload(etf, cache_write.message))
    ELSE Returns(search.value)

\* ResearchService.research_etf: the cache lookup comes before the try
research_etf(etf, use_cache, cache_read, search, cache_write) ==
    IF use_cache /\ cache_read.raises THEN Raises(cache_read.message)
    ELSE IF use_cache /\ cached_truthy(cache_read.value)
    THEN Returns(cache_read.value)
    ELSE research_guarded(etf, search, cache_write)

CacheReadOutcomes ==
    {Returns(Absent), Returns([empty |-> TRUE]),
     Returns([context |-> "cached", total_results |-> 2]),
     Raises("database is locked")}
SearchOutcomes ==
    {Returns([context |-> "fresh", total_results |-> 3]),
     Raises("Search providers failed")}
CacheWriteOutcomes == {Returns(Absent), Raises("database is locked")}

ResearchInit ==
    /\ \E etf \in ETF : \E use_cache \in BOOLEAN :
       \E cache_read \in CacheReadOutcomes : \E search \in SearchOutcomes :
       \E cache_write \in CacheWriteOutcomes :
          research_request =
              [etf |-> etf, use_cache |-> use_cache, cache_read |-> cache_read,
               search |-> search, cache_write |-> cache_write]
    /\ research_result = Absent
    /\ OutsideResearchIdle

ResearchEtf ==
    /\ research_result = Absent
    /\ research_result' =
          research_etf(research_request.etf, research_request.use_cache,
                       research_request.cache_read, research_request.search,
                       research_request.cache_write)
    /\ UNCHANGED <<research_request, outside_research>>

ResearchNext == ResearchEtf

SpecResearch == ResearchInit /\ [][ResearchNext]_vars

(***************************************************************************)
(* infrastructure/search/composite_search.py : CompositeSearchProvider     *)
(***************************************************************************)
\* a source is absent (no client), fails, or answers with a result list
NoClient == [client |-> FALSE]
SourceFails == [client |-> TRUE, raises |-> TRUE]
Answers(results) == [client |-> TRUE, raises |-> FALSE, results |-> results]

\* _deduplicate_results: an entry is kept when it has a URL not seen before
RECURSIVE deduplicate_keep_last(_)
deduplicate_keep_last(results) ==
    IF results = <<>> THEN <<>>
    ELSE LET x == Head(results)
             rest == deduplicate_keep_last(Tail(results))
         IN  IF x.url # "" /\ \A i \in 1..Len(Tail(results)) :
                                 Tail(results)[i].url # x.url
             THEN <<x>> \o rest ELSE rest

RECURSIVE dedup_from(_, _)
dedup_from(results, seen_urls) ==
    IF results = <<>> THEN <<>>
    ELSE LET x == Head(results)
         IN  IF x.url # "" /\ x.url \notin seen_urls
             THEN <<x>> \o dedup_from(Tail(results), seen_urls \cup {x.url})
             ELSE dedup_from(Tail(results), seen_urls)

deduplicate_results(results) == dedup_from(results, {})

\* results[:n] for n >= 0
first_n(results, n) ==
    IF n >= Len(results) THEN results ELSE SubSeq(results, 1, n)

\* SerperSearchClient.search / BraveSearchClient.search as the composite
\* calls them: the first count entries of what the service holds
client_search(src, count) ==
    IF src.client /\ ~src.raises THEN first_n(src.results, count) ELSE <<>>

\* a query put to a source: which one, and for how many results
query(source, count) == [source |-> source, count |-> count]

\* a variant of search that asks the second source for num_results again
composite_search_whole_count(serper, brave, num_results) ==
    LET from_serper == client_search(serper, num_results)
        ask_brave == Len(from_serper) < num_results /\ brave.client
        from_brave ==
            IF ask_brave THEN client_search(brave, num_results) ELSE <<>>
    IN  [value |-> first_n(deduplicate_results(from_serper \o from_brave),
                           num_results),
         from_serper |-> from_serper, from_brave |-> from_brave,
         queries |->
            (IF serper.client THEN <<query("serper", num_results)>> ELSE <<>>)
            \o (IF ask_brave THEN <<query("brave", num_results)>> ELSE <<>>)]

\* CompositeSearchProvider.search: the second source is asked only when the
\* first gave fewer than num_results, and then for what is missing
composite_search(serper, brave, num_results) ==
    LET from_serper == client_search(serper, num_results)
        ask_brave == Len(from_serper) < num_results /\ brave.client
        remaining == num_results - Len(from_serper)
        from_brave ==
            IF ask_brave THEN client_search(brave, remaining) ELSE <<>>
    IN  [value |-> first_n(deduplicate_results(from_serper \o from_brave),
                           num_results),
         from_serper |-> from_serper, from_brave |-> from_brave,
         queries |->
            (IF serper.client THEN <<query("serper", num_results)>> ELSE <<>>)
            \o (IF ask_brave THEN <<query("brave", remaining)>> ELSE <<>>)]

\* CompositeSearchProvider.search_news: both sources are asked, each for
\* half of num_results, rounded up
composite_search_news(serper, brave, num_results) ==
    LET per_provider == (num_results + 1) \div 2
        from_serper == client_search(serper, per_provider)
        from_brave == client_search(brave, per_provider)
    IN  [value |-> first_n(deduplicate_results(from_serper \o from_brave),
                           num_results),
         from_serper |-> from_serper, from_brave |-> from_brave,
         queries |->
            (IF serper.client THEN <<query("serper", per_provider)>> ELSE <<>>)
            \o (IF brave.client THEN <<query("brave", per_provider)>> ELSE <<>>)]

Urls == {"", "https://a.example", "https://b.example"}

\* the result lists of a source: entry i carries its source and its rank
ResultLists(source) ==
    {[i \in 1..Len(urls) |-> [url |-> urls[i], source |-> source, rank |-> i]] :
        urls \in SeqsUpTo(Urls, MaxResults)}

SourceOutcomes(source) ==
    {NoClient, SourceFails} \cup {Answers(r) : r \in ResultLists(source)}

SearchInit ==
    /\ \E op \in {"search", "search_news"} : \E n \in 0..(MaxResults + 1) :
       \E serper \in SourceOutcomes("serper") :
       \E brave \in SourceOutcomes("brave") :
          search_request = [op |-> op, num_results |-> n,
                            serper |-> serper, brave |-> brave]
    /\ search_result = Absent
    /\ OutsideSearchIdle

Search ==
    /\ search_result = Absent
    /\ search_request.op = "search"
    /\ search_result' = composite_search(search_request.serper,
                                         search_request.brave,
                                         search_request.num_results)
    /\ UNCHANGED <<search_request, outside_search>>

SearchNews ==
    /\ search_result = Absent
    /\ search_request.op = "search_news"
    /\ search_result' = composite_search_news(search_request.serper,
                                              search_request.brave,
                                              search_request.num_results)
    /\ UNCHANGED <<search_request, outside_search>>

SearchNext == Search \/ SearchNews

SpecSearch == SearchInit /\ [][SearchNext]_vars

(***************************************************************************)
(* application/services.py : AnalysisService.run_analysis                  *)
(***************************************************************************)
\* generate_signal is called with the ranking only, so its previous_etf
\* parameter takes the default None
run_analysis(prim, fb, order, t) ==
    LET fetch == composite_get_all_etf_data(prim, fb, FALSE, order)
    IN  IF fetch.raised
        THEN [raised |-> TRUE, error |-> fetch.kind, obtained |-> 0,
              signal |-> Absent]
        ELSE IF fetch.data = <<>>
        THEN [raised |-> TRUE, error |-> "No price data available for any ETF",
              obtained |-> 0, signal |-> Absent]
        ELSE LET rk == calculate_ranking(fetch.data, t)
             IN  IF ~rk.ok
                 THEN [raised |-> TRUE, error |-> rk.error,
                       obtained |-> Len(fetch.data), signal |-> Absent]
                 ELSE LET sig == generate_signal(rk, None, t)
                      IN  [raised |-> FALSE, error |-> None,
                           obtained |-> Len(fetch.data),
                           signal |-> [sig EXCEPT
                                          !.report = get_explanation(sig)]]

(***************************************************************************)
(* application/use_cases.py : AnalyzeAndRecommendUseCase.execute           *)
(***************************************************************************)
\* what a Signal object answers to: its fields and its two properties
SignalAttributes(sig) == DOMAIN sig \cup {"stooq_link", "action", "action_emoji"}

\* the methods of MomentumStrategy
StrategyMethods ==
    {"get_analysis_period", "calculate_ranking", "generate_signal",
     "get_explanation"}

\* the attributes of the signal the response reads, in order
ResponseReads == <<"action", "recommended_etf", "date", "rationale">>

AttributeError(name) ==
    CASE name = "date" -> "'Signal' object has no attribute 'date'"
      [] name = "rationale" -> "'Signal' object has no attribute 'rationale'"
      [] OTHER -> "AttributeError"

\* the "metadata" entry of execute's response
response_metadata(include_research, save_to_db, ranking_list, research_context, t) ==
    [analysis_date |-> isoformat(t),
     total_etfs_analyzed |-> Len(ranking_list),
     research_included |-> include_research /\ research_context # Absent,
     saved_to_db |-> save_to_db]

\* the whole of execute: the analysis, the second ranking, the research,
\* the save and the response.  db_ok says whether the INSERT succeeds,
\* research_ok whether the research call returns.
execute(include_research, save_to_db, prim, fb, order, db_ok, research_ok, rows, t) ==
    LET a == run_analysis(prim, fb, order, t)
    IN  IF a.raised
        THEN [raised |-> TRUE, error |-> a.error, response |-> Absent,
              rows |-> rows, analysis |-> a]
        ELSE
        LET ranking_list ==
                IF "rank_etfs" \in StrategyMethods
                THEN a.signal.ranking.rankings ELSE <<>>
            research_context ==
                IF include_research /\ ranking_list # <<>> /\ research_ok
                THEN [etfs |-> SubSeq(ranking_list, 1, 3)] ELSE Absent
            rows1 ==
                IF save_to_db /\ db_ok THEN repo_save(rows, a.signal)
                ELSE rows
            unanswered ==
                {i \in 1..Len(ResponseReads) :
                    ResponseReads[i] \notin SignalAttributes(a.signal)}
        IN  IF unanswered # {}
            THEN [raised |-> TRUE,
                  error |-> AttributeError(ResponseReads[SetMin(unanswered)]),
                  response |-> Absent, rows |-> rows1, analysis |-> a]
            ELSE [raised |-> FALSE, error |-> None,
                  response |->
                      [signal |-> [action |-> action(a.signal)[1],
                                   recommended_etf |-> a.signal.recommended_etf],
                       ranking |-> ranking_list,
                       research |-> research_context,
                       metadata |->
                           response_metadata(include_research, save_to_db,
                                             ranking_list, research_context,
                                             t)],
                  rows |-> rows1, analysis |-> a]

(***************************************************************************)
(* application/agent.py : the workflow, and the front ends calling it      *)
(***************************************************************************)
ValidTasks == {"analyze", "history", "research_etf", "market_outlook"}

route_always_analyze(st) == "analyze"
route_to_task(st) == IF st.task \in ValidTasks THEN st.task ELSE "analyze"

TaskNode ==
    [analyze |-> "analyze_and_recommend", history |-> "get_history",
     research_etf |-> "research_etf", market_outlook |-> "market_outlook"]

initial_state(include_research, save_to_db) ==
    [task |-> "analyze", include_research |-> include_research,
     save_to_db |-> save_to_db, result |-> Absent, error |-> None,
     completed |-> FALSE]

\* _finalize
finalize_result_only(st, t) ==
    IF st.result # Absent
    THEN [st EXCEPT !.result.metadata =
                        [execution_time |-> isoformat(t), task |-> st.task]
                            @@ st.result.metadata]
    ELSE st
finalize(st, t) ==
    IF st.result # Absent
    THEN [st EXCEPT !.completed = TRUE,
                    !.result.metadata =
                        [execution_time |-> isoformat(t), task |-> st.task]
                            @@ st.result.metadata]
    ELSE [st EXCEPT !.completed = TRUE]

\* Python truthiness of the error entry
truthy(err) == err # None /\ err # ""

\* the sources as one invocation finds them: the ETFs in ok answer with the
\* market's quote, the others fail with the source's own error
Source(quotes, ok, hot, own_error) ==
    [e \in ETF |-> IF e \in ok THEN Ok(HotQuote(quotes[e], hot))
                   ELSE Fails(own_error)]

RunInit ==
    /\ RunIdle
    /\ RepoIdle
    /\ StrategyIdle
    /\ MarketIdle
    /\ MoreIdle

\* cli.analyze / gradio_app.run_analysis call agent.run_analysis, which
\* builds the initial state and enters the graph at route_task
StartAnalysis ==
    /\ node = "idle"
    /\ clock < MaxRuns
    /\ \E fe \in {"cli", "dashboard"} :
       \E include_research \in BOOLEAN : \E save_to_db \in BOOLEAN :
          /\ state' = initial_state(include_research, save_to_db)
          /\ console' = [frontend |-> fe, shown |-> "running"]
    /\ node' = "route_task"
    /\ clock' = clock + 1
    /\ rows_before' = signals
    /\ last_run' = Absent
    /\ UNCHANGED <<signals, saved, latest, history, strategy_vars, market_vars, more_vars>>

RouteTask ==
    /\ node = "route_task"
    /\ node' = TaskNode[route_to_task(state)]
    /\ UNCHANGED <<clock, state, console, rows_before, last_run,
                   repo_vars, strategy_vars, market_vars, more_vars>>

\* the analyze_and_recommend node: the use case runs to its end
AnalyzeAndRecommend ==
    /\ node = "analyze_and_recommend"
    /\ \E hot \in {"EIMI", "IB01"} : \E stooq_ok \in SUBSET ETF :
       \E yahoo_ok \in {{}, ETF \ stooq_ok} :
       \E order \in (IF stooq_ok = {} THEN {<<>>} ELSE Orders(ETF \ stooq_ok)) :
       \E db_ok \in BOOLEAN :
       \E r \in {execute(state.include_research, state.save_to_db,
                         Source([e \in ETF |-> StooqQuote(e)], stooq_ok, hot,
                                "StooqError"),
                         Source([e \in ETF |-> YahooQuote(e)], yahoo_ok, hot,
                                "YahooFinanceError"),
                         order, db_ok, TRUE, signals, clock)} :
              /\ state' = [state EXCEPT !.result = r.response,
                                        !.error = r.error]
              /\ signals' = r.rows
              /\ last_run' =
                    [obtained |-> r.analysis.obtained,
                     analysis |-> IF r.analysis.raised THEN "raised"
                                  ELSE "returned",
                     signal |-> r.analysis.signal,
                     execute |-> IF r.raised THEN "raised" ELSE "returned"]
    /\ node' = "finalize"
    /\ UNCHANGED <<clock, console, rows_before, saved, latest, history,
                   strategy_vars, market_vars, more_vars>>

Finalize ==
    /\ node = "finalize"
    /\ state' = finalize(state, clock)
    /\ node' = "END"
    /\ UNCHANGED <<clock, console, rows_before, last_run,
                   repo_vars, strategy_vars, market_vars, more_vars>>

\* agent.run_analysis raises the state's error or returns its result; the
\* front end shows the one or the other
ReturnToFrontEnd ==
    /\ node = "END"
    /\ console' =
          IF truthy(state.error)
          THEN [frontend |-> console.frontend, shown |-> "error",
                text |-> state.error]
          ELSE IF state.result = Absent
          THEN [frontend |-> console.frontend, shown |-> "error",
                text |-> "'NoneType' object has no attribute 'get'"]
          ELSE [frontend |-> console.frontend, shown |-> "result",
                text |-> state.result.signal.action]
    /\ node' = "idle"
    /\ UNCHANGED <<clock, state, rows_before, last_run,
                   repo_vars, strategy_vars, market_vars, more_vars>>

RunNext ==
    \/ StartAnalysis
    \/ RouteTask
    \/ AnalyzeAndRecommend
    \/ Finalize
    \/ ReturnToFrontEnd

SpecRun == RunInit /\ [][RunNext]_vars

(***************************************************************************)
(* application/agent.py : the task graph over all four public operations,  *)
(* with each use case taken as a call that returns or raises               *)
(***************************************************************************)
BranchNodes ==
    {"analyze_and_recommend", "get_history", "research_etf", "market_outlook"}

\* the initial states the public operations build, and a state handed to
\* the graph with a task of the caller's choosing
graph_input(task, include_research, save_to_db, etf_name, asset_class, days) ==
    [task |-> task, include_research |-> include_research,
     save_to_db |-> save_to_db, etf_name |-> etf_name,
     asset_class |-> asset_class, days |-> days,
     result |-> Absent, error |-> None, completed |-> FALSE]

Invocations ==
    {[op |-> "run_analysis", input |-> graph_input("analyze", r, sv, None, None, 30)] :
        r \in BOOLEAN, sv \in BOOLEAN}
    \cup {[op |-> "get_history", input |-> graph_input("history", FALSE, FALSE, None, None, dd)] :
        dd \in {7, 30}}
    \cup {[op |-> "research_etf", input |-> graph_input("research_etf", FALSE, FALSE, e, None, 30)] :
        e \in {"", "EIMI"}}
    \cup {[op |-> "research_market_outlook", input |-> graph_input("market_outlook", FALSE, FALSE, None, a, 30)] :
        a \in {"", "bonds"}}
    \cup {[op |-> "graph.invoke", input |-> graph_input(t, TRUE, TRUE, None, None, 30)] :
        t \in {"rebalance", ""}}

\* how a use case may end: with a result dictionary or with an exception,
\* whose message may be empty
UseCaseOutcomes ==
    {Returns([data |-> "response", metadata |-> [retrieved_at |-> isoformat(0)]]),
     Raises("use case failed"), Raises("")}

\* a branch node's try/except around the use case
capture_partial(st, uc) ==
    IF uc.raises
    THEN [st EXCEPT !.result = [data |-> "partial", metadata |-> <<>>],
                    !.error = uc.message]
    ELSE [st EXCEPT !.result = uc.value, !.error = None]
capture(st, uc) ==
    IF uc.raises THEN [st EXCEPT !.result = Absent, !.error = uc.message]
    ELSE [st EXCEPT !.result = uc.value, !.error = None]

\* `if not etf_name` / `if not asset_class`
falsy(x) == x = None \/ x = ""

\* the public operation's ending: raise the error or return the result
public_return(st) ==
    IF truthy(st.error) THEN Raises(st.error) ELSE Returns(st.result)

AgentInit ==
    /\ invocation = Absent
    /\ agent_state = Absent
    /\ agent_node = "idle"
    /\ visited = <<>>
    /\ use_case = Absent
    /\ outcome = Absent
    /\ OutsideAgentIdle

Invoke ==
    /\ agent_node = "idle"
    /\ invocation = Absent
    /\ \E inv \in Invocations :
          /\ invocation' = inv
          /\ agent_state' = inv.input
    /\ agent_node' = "route_task"
    /\ UNCHANGED <<visited, use_case, outcome, outside_agent>>

AgentRouteTask ==
    /\ agent_node = "route_task"
    /\ visited' = Append(visited, "route_task")
    /\ agent_node' = TaskNode[route_to_task(agent_state)]
    /\ UNCHANGED <<invocation, agent_state, use_case, outcome, outside_agent>>

AnalyzeNode ==
    /\ agent_node = "analyze_and_recommend"
    /\ \E uc \in UseCaseOutcomes :
          /\ use_case' = uc
          /\ agent_state' = capture(agent_state, uc)
    /\ visited' = Append(visited, "analyze_and_recommend")
    /\ agent_node' = "finalize"
    /\ UNCHANGED <<invocation, outcome, outside_agent>>

GetHistoryNode ==
    /\ agent_node = "get_history"
    /\ \E uc \in UseCaseOutcomes :
          /\ use_case' = uc
          /\ agent_state' = capture(agent_state, uc)
    /\ visited' = Append(visited, "get_history")
    /\ agent_node' = "finalize"
    /\ UNCHANGED <<invocation, outcome, outside_agent>>

ResearchEtfNode ==
    /\ agent_node = "research_etf"
    /\ IF falsy(agent_state.etf_name)
       THEN /\ agent_state' =
                  [agent_state EXCEPT
                      !.result = Absent,
                      !.error = "ETF name is required for research"]
            /\ UNCHANGED use_case
       ELSE \E uc \in UseCaseOutcomes :
               /\ use_case' = uc
               /\ agent_state' = capture(agent_state, uc)
    /\ visited' = Append(visited, "research_etf")
    /\ agent_node' = "finalize"
    /\ UNCHANGED <<invocation, outcome, outside_agent>>

MarketOutlookNode ==
    /\ agent_node = "market_outlook"
    /\ IF falsy(agent_state.asset_class)
       THEN /\ agent_state' =
                  [agent_state EXCEPT
                      !.result = Absent,
                      !.error = "Asset class is required for market outlook"]
            /\ UNCHANGED use_case
       ELSE \E uc \in UseCaseOutcomes :
               /\ use_case' = uc
               /\ agent_state' = capture(agent_state, uc)
    /\ visited' = Append(visited, "market_outlook")
    /\ agent_node' = "finalize"
    /\ UNCHANGED <<invocation, outcome, outside_agent>>

AgentFinalize ==
    /\ agent_node = "finalize"
    /\ agent_state' = finalize(agent_state, 1)
    /\ visited' = Append(visited, "finalize")
    /\ agent_node' = "END"
    /\ UNCHANGED <<invocation, use_case, outcome, outside_agent>>

AgentReturn ==
    /\ agent_node = "END"
    /\ outcome = Absent
    /\ outcome' = public_return(agent_state)
    /\ UNCHANGED <<invocation, agent_state, agent_node, visited, use_case,
                   outside_agent>>

AgentNext ==
    \/ Invoke
    \/ AgentRouteTask
    \/ AnalyzeNode
    \/ GetHistoryNode
    \/ ResearchEtfNode
    \/ MarketOutlookNode
    \/ AgentFinalize
    \/ AgentReturn

SpecAgent == AgentInit /\ [][AgentNext]_vars

\* graph.invoke runs the nodes one after the other until END
SpecAgentLive == SpecAgent /\ WF_vars(AgentNext)

(***************************************************************************)
(* infrastructure/mcp_servers/notification_server.py and                   *)
(* infrastructure/notifications : the two clients and the tool             *)
(* send_signal_all_channels                                                *)
(***************************************************************************)
\* an exception of a given class on its way up the call stack
RaisesOf(type, msg) == [raises |-> TRUE, type |-> type, message |-> msg]

\* @retry(stop=stop_after_attempt(3)) on both clients' _make_request
stop_after_attempt == 3

\* what one HTTP request may meet: an answer, an error status, no connection
RequestOutcomes == {"ok", "status_error", "request_error"}
AttemptOutcomes == [1..stop_after_attempt -> RequestOutcomes]
\* the email client's requests: answered or not
EmailAttemptOutcomes == [1..stop_after_attempt -> {"ok", "request_error"}]

\* the body of PushoverClient._make_request, one attempt
pushover_request(o) ==
    IF o = "ok" THEN Returns([status |-> 1])
    ELSE IF o = "status_error"
    THEN RaisesOf("PushoverError", "API returned 500")
    ELSE RaisesOf("PushoverError", "Request failed")

\* the retry decorator without reraise: an attempt that raises is repeated,
\* and when the last attempt raises too the decorator raises its RetryError
RECURSIVE retry(_, _, _)
retry(call, outcomes, attempt_number) ==
    IF ~call[outcomes[attempt_number]].raises
    THEN call[outcomes[attempt_number]]
    ELSE IF attempt_number >= stop_after_attempt
    THEN RaisesOf("RetryError", "RetryError")
    ELSE retry(call, outcomes, attempt_number + 1)

\* PushoverClient._make_request as callers see it
pushover_make_request(outcomes) ==
    retry([o \in RequestOutcomes |-> pushover_request(o)], outcomes, 1)

\* PushoverClient.send_notification: a PushoverError is logged and raised
\* again, any other exception passes through untouched
pushover_send_notification(outcomes) == pushover_make_request(outcomes)

\* PushoverClient.send_signal_notification
pushover_send_signal_notification(outcomes) ==
    pushover_send_notification(outcomes)

\* the email client: three attempts, then its own error
sendgrid_send_signal_notification(outcomes) ==
    IF \E i \in 1..stop_after_attempt : outcomes[i] = "ok"
    THEN Returns([status_code |-> 202])
    ELSE RaisesOf("SendGridError", "SendGrid request failed")

\* the credentials the settings may hold
Credentials == {"", "secret"}
Settings ==
    [sendgrid_api_key : Credentials, sendgrid_from_email : Credentials,
     pushover_user_key : Credentials, pushover_api_token : Credentials]

\* PushoverClient.__init__ / SendGridClient.__init__: do they construct
pushover_constructs(s) == s.pushover_user_key # "" /\ s.pushover_api_token # ""
sendgrid_constructs(s) == s.sendgrid_api_key # "" /\ s.sendgrid_from_email # ""

\* get_sendgrid_client / get_pushover_client: the singleton after the call
get_sendgrid_client(client, s) ==
    IF client = None /\ sendgrid_constructs(s) THEN "SendGridClient" ELSE client
get_pushover_client(client, s) ==
    IF client = None /\ pushover_constructs(s) THEN "PushoverClient" ELSE client

\* one channel's entry of the report
entry(attempted, success, error) ==
    [attempted |-> attempted, success |-> success, error |-> error]

\* one channel of send_signal_all_channels: the entry it writes, or the
\* exception its except clause does not catch
channel(client, sent, caught, not_configured) ==
    IF client = None THEN Returns(entry(FALSE, FALSE, not_configured))
    ELSE IF ~sent.raises THEN Returns(entry(TRUE, TRUE, None))
    ELSE IF sent.type = caught
    THEN Returns(entry(TRUE, FALSE, sent.message))
    ELSE sent

\* send_signal_all_channels: what the call does (result) and the channels
\* whose send was called before it ended (attempted)
send_signal_all_channels(email_client, push_client, email_outcomes, push_outcomes) ==
    LET email == channel(email_client,
                         sendgrid_send_signal_notification(email_outcomes),
                         "SendGridError", "SendGrid not configured")
        push  == channel(push_client,
                         pushover_send_signal_notification(push_outcomes),
                         "PushoverError", "Pushover not configured")
    IN  IF email.raises
        THEN [result |-> email, attempted |-> {"email"}]
        ELSE IF push.raises
        THEN [result |-> push,
              attempted |-> {"push"} \cup
                            (IF email_client # None THEN {"email"} ELSE {})]
        ELSE [result |-> Returns([email |-> email.value, push |-> push.value,
                  overall_success |->
                      email.value.success \/ push.value.success]),
              attempted |-> (IF email_client # None THEN {"email"} ELSE {})
                            \cup (IF push_client # None THEN {"push"} ELSE {})]

NotifyInit ==
    /\ settings \in Settings
    /\ sendgrid_client = None
    /\ pushover_client = None
    /\ notify_request = Absent
    /\ notify_outcome = Absent
    /\ OutsideNotifyIdle

\* one call of the tool
SendSignalAllChannels ==
    \E email_outcomes \in EmailAttemptOutcomes : \E push_outcomes \in AttemptOutcomes :
       /\ sendgrid_client' = get_sendgrid_client(sendgrid_client, settings)
       /\ pushover_client' = get_pushover_client(pushover_client, settings)
       /\ notify_request' = [email |-> email_outcomes, push |-> push_outcomes]
       /\ notify_outcome' =
             send_signal_all_channels(sendgrid_client', pushover_client',
                                      email_outcomes, push_outcomes)
       /\ UNCHANGED <<settings, outside_notify>>

NotifyNext == SendSignalAllChannels

SpecNotify == NotifyInit /\ [][NotifyNext]_vars

(***************************************************************************)
(* infrastructure/persistence/database.py : Database                       *)
(* infrastructure/persistence/migrations.py : MigrationManager             *)
(***************************************************************************)
CURRENT_VERSION == 2

\* a database file: its tables, its indexes and the schema_version rows
EmptyFile == [tables |-> {}, indexes |-> {}, schema_version |-> <<>>]

\* the columns of the signals table as _init_schema creates it
SignalsColumns ==
    {"id", "created_at", "recommended_etf", "previous_etf",
     "requires_rebalance", "winner_momentum", "ranking_json", "report",
     "period_start", "period_end"}

\* Database._init_schema: CREATE ... IF NOT EXISTS
init_schema(file) ==
    [file EXCEPT !.tables = @ \cup {"signals", "research_cache"},
                 !.indexes = @ \cup {"idx_signals_created_at",
                                     "idx_research_cache_etf"}]

\* Database(db_path): the object's instance attributes and its methods
Database(db_path) == [db_path |-> db_path]
DatabaseMethods == {"_init_schema", "connection"}
has_attribute(db, name) == name \in DOMAIN db \cup DatabaseMethods

\* self.db.conn
db_conn(db) ==
    IF has_attribute(db, "conn") THEN Returns("conn")
    ELSE RaisesOf("AttributeError", "'Database' object has no attribute 'conn'")

\* get_schema_version: the version of a row with the latest applied_at (rows
\* of the same second tie, and LIMIT 1 takes any of them); 0 when there is
\* no row or when anything raises
get_schema_version(db, file) ==
    IF db_conn(db).raises \/ file.schema_version = <<>> THEN {0}
    ELSE {file.schema_version[i].version :
             i \in {j \in DOMAIN file.schema_version :
                       \A k \in DOMAIN file.schema_version :
                          file.schema_version[k].applied_at
                             <= file.schema_version[j].applied_at}}

\* set_schema_version: INSERT INTO schema_version ... datetime('now')
set_schema_version(file, version, now) ==
    [file EXCEPT !.schema_version =
                     Append(@, [version |-> version, applied_at |-> now])]

\* create_schema_version_table
create_schema_version_table(file) ==
    [file EXCEPT !.tables = @ \cup {"schema_version"}]

\* migrate_to_v1: indexes on signals(date) and signals(created_at)
migrate_to_v1(file) ==
    IF "date" \notin SignalsColumns
    THEN RaisesOf("OperationalError", "no such column: date")
    ELSE Returns([file EXCEPT !.indexes =
                     @ \cup {"idx_signals_date", "idx_signals_created_at"}])

\* migrate_to_v2: the research_cache table and its index, IF NOT EXISTS
migrate_to_v2(file) ==
    Returns([file EXCEPT !.tables = @ \cup {"research_cache"},
                         !.indexes = @ \cup {"idx_research_cache_etf"}])

\* migrations = {1: migrate_to_v1, 2: migrate_to_v2}
migrations(version, file) ==
    IF version = 1 THEN migrate_to_v1(file) ELSE migrate_to_v2(file)

\* how a run ends: the file it leaves, its result, the versions it applied
run_end(file, result, applied) ==
    [file |-> file, result |-> result, applied |-> applied]

\* the loop: for version in range(current + 1, CURRENT_VERSION + 1)
RECURSIVE apply_from(_, _, _, _)
apply_from(file, version, now, applied) ==
    IF version > CURRENT_VERSION THEN run_end(file, Returns(None), applied)
    ELSE IF migrations(version, file).raises
    THEN run_end(file, migrations(version, file), applied)
    ELSE apply_from(set_schema_version(migrations(version, file).value,
                                       version, now),
                    version + 1, now, Append(applied, version))

\* MigrationManager.run_migrations; current is what get_schema_version reads
run_migrations(db, file, current, now) ==
    IF db_conn(db).raises THEN run_end(file, db_conn(db), <<>>)
    ELSE IF current >= CURRENT_VERSION
    THEN run_end(create_schema_version_table(file), Returns(None), <<>>)
    ELSE apply_from(create_schema_version_table(file), current + 1, now, <<>>)

\* the tables reset_database drops
KnownTables == {"signals", "rankings", "research_cache", "schema_version"}

\* MigrationManager.reset_database: each DROP is tried and its failure
\* logged; the commit, _create_tables and run_migrations are not guarded
reset_database(db, file, now) ==
    IF db_conn(db).raises THEN run_end(file, db_conn(db), <<>>)
    ELSE IF ~has_attribute(db, "_create_tables")
    THEN run_end([tables |-> file.tables \ KnownTables, indexes |-> {},
                  schema_version |-> <<>>],
                 RaisesOf("AttributeError",
                          "'Database' object has no attribute '_create_tables'"),
                 <<>>)
    ELSE run_migrations(db, init_schema(EmptyFile), 0, now)

\* the database paths in use: settings.db_path and two given by callers
Paths == {"data/momentum.db", "test.db", "backup.db"}

MigrateInit ==
    /\ files = [p \in Paths |-> EmptyFile]
    /\ db_clock = 0
    /\ migration_run = Absent
    /\ OutsideMigrateIdle

\* Database(db_path) by any other part of the program
OpenDatabase ==
    \E p \in Paths :
       /\ files' = [files EXCEPT ![p] = init_schema(@)]
       /\ migration_run' = Absent
       /\ UNCHANGED <<db_clock, outside_migrate>>

\* the run a call of run_migrations on path p follows directly, if any
previous_runs(p) ==
    IF migration_run # Absent /\ migration_run.path = p
    THEN migration_run.number ELSE 0

\* what a call on path p leaves in migration_run
run_record(p, number, file, r) ==
    [path |-> p, number |-> number, fresh |-> file = EmptyFile,
     before |-> init_schema(file), result |-> r.result,
     applied |-> r.applied,
     versions |-> get_schema_version(Database(p), r.file)]

\* run_migrations(db_path): Database(db_path), then the manager's run
RunMigrations ==
    \E p \in Paths :
    \E current \in get_schema_version(Database(p), init_schema(files[p])) :
    \E r \in {run_migrations(Database(p), init_schema(files[p]), current,
                             db_clock)} :
       /\ previous_runs(p) < MaxRuns
       /\ files' = [files EXCEPT ![p] = r.file]
       /\ migration_run' = run_record(p, previous_runs(p) + 1, files[p], r)
       /\ UNCHANGED <<db_clock, outside_migrate>>

\* MigrationManager(Database(db_path)).reset_database()
ResetDatabase ==
    \E p \in Paths :
    \E r \in {reset_database(Database(p), init_schema(files[p]), db_clock)} :
       /\ files' = [files EXCEPT ![p] = r.file]
       /\ migration_run' = run_record(p, 0, files[p], r)
       /\ UNCHANGED <<db_clock, outside_migrate>>

\* a second passes
DbTick ==
    /\ db_clock < MaxClock
    /\ db_clock' = db_clock + 1
    /\ UNCHANGED <<files, migration_run, outside_migrate>>

MigrateNext == OpenDatabase \/ RunMigrations \/ ResetDatabase \/ DbTick

SpecMigrate == MigrateInit /\ [][MigrateNext]_vars

(***************************************************************************)
(* domain/models.py : constructing a MomentumRanking                       *)
(***************************************************************************)
\* a rankings tuple over the given ETFs; the momenta play no part in the
\* validation and are taken as 0
rankings_of(etfs) == [i \in 1..Len(etfs) |-> <<etfs[i], Frac(0, 1)>>]

\* MomentumRanking(rankings=..., ...): the dataclass sets the fields and runs
\* __post_init__, whose ValueError ends the construction
MomentumRanking(rankings) ==
    IF MomentumRanking_post_init(rankings) # None
    THEN RaisesOf("ValueError", MomentumRanking_post_init(rankings))
    ELSE Returns([rankings |-> rankings])

\* one entry per catalog ETF
one_entry_per_etf(rankings) ==
    \A e \in ETF : Cardinality({i \in 1..Len(rankings) : rankings[i][1] = e}) = 1

ConstructInit ==
    /\ \E etfs \in SeqsUpTo(ETF, MaxLen) : rankings_given = rankings_of(etfs)
    /\ constructed = Absent
    /\ OutsideConstructIdle

Construct ==
    /\ constructed = Absent
    /\ constructed' = MomentumRanking(rankings_given)
    /\ UNCHANGED <<rankings_given, outside_construct>>

ConstructNext == Construct

SpecConstruct == ConstructInit /\ [][ConstructNext]_vars

(***************************************************************************)
(* infrastructure/market_data/stooq.py : StooqProvider._fetch_csv          *)
(* infrastructure/market_data/yahoo_finance.py :                           *)
(*     YahooFinanceProvider._fetch_history                                 *)
(***************************************************************************)
\* what one network attempt may meet
FetchOutcomes == {"ok", "connect_error", "timeout", "status_error", "no_data"}
NetworkFailures == {"connect_error", "timeout"}

\* the exception classes each decorator names in retry_if_exception_type
stooq_retried == {"httpx.ConnectError", "httpx.TimeoutException"}
yahoo_retried == {"ConnectionError", "TimeoutError"}

\* the body of StooqProvider._fetch_csv, one attempt: every exception that is
\* not a StooqError leaves it as a StooqError
stooq_fetch_csv_body(o) ==
    IF o = "ok" THEN Returns("df")
    ELSE IF o = "no_data" THEN RaisesOf("StooqError", "No data")
    ELSE IF o = "status_error" THEN RaisesOf("StooqError", "HTTP error")
    ELSE RaisesOf("StooqError", "Failed to fetch")

\* the body of YahooFinanceProvider._fetch_history, one attempt: when
\* history() raises, hist is not bound and the handler's condition is True
yahoo_fetch_history_body(o) ==
    IF o = "ok" THEN Returns("hist")
    ELSE IF o = "no_data" THEN RaisesOf("YahooFinanceError", "No data returned")
    ELSE RaisesOf("YahooFinanceError", "No data")

\* @retry(stop=stop_after_attempt(3), retry=retry_if_exception_type(types)):
\* the call is repeated only when the exception leaving the body is of one
\* of the types; the result and the number of attempts made
RECURSIVE retry_if(_, _, _, _)
retry_if(call, types, outcomes, attempt_number) ==
    IF ~call[outcomes[attempt_number]].raises
       \/ call[outcomes[attempt_number]].type \notin types
    THEN [result |-> call[outcomes[attempt_number]],
          attempts |-> attempt_number]
    ELSE IF attempt_number >= stop_after_attempt
    THEN [result |-> RaisesOf("RetryError", "RetryError"),
          attempts |-> attempt_number]
    ELSE retry_if(call, types, outcomes, attempt_number + 1)

\* StooqProvider._fetch_csv and YahooFinanceProvider._fetch_history as their
\* callers see them
stooq_fetch_csv(outcomes) ==
    retry_if([o \in FetchOutcomes |-> stooq_fetch_csv_body(o)],
             stooq_retried, outcomes, 1)
yahoo_fetch_history(outcomes) ==
    retry_if([o \in FetchOutcomes |-> yahoo_fetch_history_body(o)],
             yahoo_retried, outcomes, 1)

\* the provider-specific error of each source
provider_error(provider) ==
    IF provider = "stooq" THEN "StooqError" ELSE "YahooFinanceError"

FetchInit ==
    /\ \E provider \in {"stooq", "yahoo"} :
       \E outcomes \in [1..stop_after_attempt -> FetchOutcomes] :
          fetch_request = [provider |-> provider, outcomes |-> outcomes]
    /\ fetch_result = Absent
    /\ OutsideFetchIdle

FetchCsv ==
    /\ fetch_result = Absent
    /\ fetch_request.provider = "stooq"
    /\ fetch_result' = stooq_fetch_csv(fetch_request.outcomes)
    /\ UNCHANGED <<fetch_request, outside_fetch>>

FetchHistory ==
    /\ fetch_result = Absent
    /\ fetch_request.provider = "yahoo"
    /\ fetch_result' = yahoo_fetch_history(fetch_request.outcomes)
    /\ UNCHANGED <<fetch_request, outside_fetch>>

FetchNext == FetchCsv \/ FetchHistory

SpecFetch == FetchInit /\ [][FetchNext]_vars

(***************************************************************************)
(* infrastructure/persistence/migrations.py : get_schema_version over the  *)
(* rows a schema_version table may hold                                    *)
(***************************************************************************)
\* the (version, applied_at) rows a schema_version table may hold
VersionRows == [version : 1..CURRENT_VERSION, applied_at : 0..MaxClock]

\* a database file that holds the given schema_version rows
file_with(rows) ==
    [init_schema(EmptyFile) EXCEPT !.tables = @ \cup {"schema_version"},
                                   !.schema_version = rows]

\* the greatest version among the rows, 0 when there is none
max_version(rows) == SetMax({0} \cup {rows[i].version : i \in DOMAIN rows})

\* the version the last call returned for path p, 0 before any call
last_read(p) ==
    IF version_read # Absent /\ version_read.path = p
    THEN version_read.version ELSE 0

SchemaInit ==
    /\ \E rows \in SeqsUpTo(VersionRows, MaxRows) :
          files = [p \in Paths |-> file_with(rows)]
    /\ db_clock = 0
    /\ migration_run = Absent
    /\ OutsideMigrateIdle

\* MigrationManager(Database(db_path)).get_schema_version(); the file has
\* its initial schema already, which Database(db_path) leaves as it is
GetSchemaVersion ==
    \E p \in Paths :
    \E v \in get_schema_version(Database(p), init_schema(files[p])) :
       /\ version_read' = [path |-> p, version |-> v, previous |-> last_read(p)]
       /\ UNCHANGED outside_schema

SchemaNext == GetSchemaVersion \/ RunMigrations \/ DbTick

SpecSchemaVersion == SchemaInit /\ [][SchemaNext]_vars

(***************************************************************************)
(* application/services.py : ResearchService.research_etf over the         *)
(* research cache                                                          *)
(***************************************************************************)
\* does research_etf reach the search: not when the lookup raised, and not
\* when it found a payload
search_called(use_cache, cache_read) ==
    ~(use_cache /\ (cache_read.raises \/ cached_truthy(cache_read.value)))

\* is cache_repository.set called: after a search that returned
set_called(use_cache, cache_read, search) ==
    search_called(use_cache, cache_read) /\ ~search.raises

\* a variant that stores whatever the call is about to return
cache_after_storing_result(tbl, etf, use_cache, cache_read, search, cache_write, utc, offset) ==
    IF ~search_called(use_cache, cache_read) THEN tbl
    ELSE cache_set(tbl, etf,
                   research_etf(etf, use_cache, cache_read, search,
                                cache_write).value,
                   utc, offset)

\* the research_cache table after the call: set writes the context when the
\* INSERT and the commit go through
cache_after(tbl, etf, use_cache, cache_read, search, cache_write, utc, offset) ==
    IF set_called(use_cache, cache_read, search) /\ ~cache_write.raises
    THEN cache_set(tbl, etf, search.value, utc, offset)
    ELSE tbl

\* what the search provider may answer
Contexts ==
    {[context |-> "fresh", total_results |-> 3],
     [context |-> "fresher", total_results |-> 4]}
ContextOutcomes ==
    {Returns(c) : c \in Contexts} \cup {Raises("Search providers failed")}

\* what the lookup answers from the table, unless the database fails
lookup(tbl, etf, utc, db_ok) ==
    IF db_ok THEN Returns(cache_get(tbl, etf, utc))
    ELSE Raises("database is locked")

\* one call of research_etf; the steps the call does not reach meet nothing
ServiceResearchEtf ==
    \E etf \in CacheKeys : \E use_cache \in BOOLEAN :
    \E db_ok \in (IF use_cache THEN BOOLEAN ELSE {TRUE}) :
    \E cache_read \in {lookup(research_cache, etf, cache_clock, db_ok)} :
    \E search \in (IF search_called(use_cache, cache_read)
                   THEN ContextOutcomes ELSE {Raises("not called")}) :
    \E cache_write \in (IF set_called(use_cache, cache_read, search)
                        THEN CacheWriteOutcomes ELSE {Returns(Absent)}) :
       /\ research_cache' =
             cache_after(research_cache, etf, use_cache, cache_read, search,
                         cache_write, cache_clock, tz)
       /\ last_set' =
             IF research_cache' # research_cache
             THEN [last_set EXCEPT
                      ![etf] = [at |-> cache_clock, payload |-> search.value]]
             ELSE last_set
       /\ service_call' =
             [etf |-> etf, use_cache |-> use_cache, at |-> cache_clock,
              entry_before |-> research_cache[etf],
              written_before |-> last_set[etf],
              cache_read |-> cache_read, search |-> search,
              searches |-> IF search_called(use_cache, cache_read)
                           THEN 1 ELSE 0,
              result |-> research_etf(etf, use_cache, cache_read, search,
                                      cache_write)]
       /\ UNCHANGED <<cache_clock, tz, cache_got, outside_cache_service>>

ServiceNext == ServiceResearchEtf \/ CacheTick

SpecService == CacheInit /\ [][ServiceNext]_vars

(***************************************************************************)
(* presentation/gradio_app.py, presentation/cli.py : get_agent             *)
(***************************************************************************)
\* the request handlers of the dashboard that call get_agent, each run by
\* the server in a thread of its own
Handlers == {"run_analysis", "get_history", "research_etf_ui"}

LazyInit ==
    /\ agent_global = 0
    /\ agents_built = 0
    /\ handler_pc = [h \in Handlers |-> "idle"]
    /\ handler_agent = [h \in Handlers |-> 0]
    /\ OutsideLazyIdle

\* a request arrives and its handler calls get_agent()
GetAgentCall(h) ==
    /\ handler_pc[h] = "idle"
    /\ handler_pc' = [handler_pc EXCEPT ![h] = "test"]
    /\ UNCHANGED <<agent_global, agents_built, handler_agent, outside_lazy>>

\* if _agent is None:
GetAgentTest(h) ==
    /\ handler_pc[h] = "test"
    /\ handler_pc' = [handler_pc EXCEPT
                         ![h] = IF agent_global = 0 THEN "construct"
                                ELSE "return"]
    /\ UNCHANGED <<agent_global, agents_built, handler_agent, outside_lazy>>

\* MomentumAgent(checkpoint_path=...): a new agent with its own checkpoint
\* connection
GetAgentConstruct(h) ==
    /\ handler_pc[h] = "construct"
    /\ agents_built' = agents_built + 1
    /\ handler_agent' = [handler_agent EXCEPT ![h] = agents_built + 1]
    /\ handler_pc' = [handler_pc EXCEPT ![h] = "store"]
    /\ UNCHANGED <<agent_global, outside_lazy>>

\* _agent = <the new agent>
GetAgentStore(h) ==
    /\ handler_pc[h] = "store"
    /\ agent_global' = handler_agent[h]
    /\ handler_pc' = [handler_pc EXCEPT ![h] = "return"]
    /\ UNCHANGED <<agents_built, handler_agent, outside_lazy>>

\* return _agent
GetAgentReturn(h) ==
    /\ handler_pc[h] = "return"
    /\ handler_agent' = [handler_agent EXCEPT ![h] = agent_global]
    /\ handler_pc' = [handler_pc EXCEPT ![h] = "done"]
    /\ UNCHANGED <<agent_global, agents_built, outside_lazy>>

LazyNext ==
    \E h \in Handlers :
       \/ GetAgentCall(h)
       \/ GetAgentTest(h)
       \/ GetAgentConstruct(h)
       \/ GetAgentStore(h)
       \/ GetAgentReturn(h)

SpecLazy == LazyInit /\ [][LazyNext]_vars

(***************************************************************************)
(* application/agent.py : successive runs of the public operations on one  *)
(* agent, whose graph is compiled with a checkpointer                      *)
(***************************************************************************)
\* config = {"configurable": {"thread_id": "1"}}
config == [configurable |-> [thread_id |-> "1"]]

\* the calls of the four public operations
PublicInvocations == {inv \in Invocations : inv.op # "graph.invoke"}

\* how the use case called in run n may end; what it returns or raises
\* belongs to that run
UseCaseOutcomesOf(n) ==
    {Returns([data |-> "response", run |-> n,
              metadata |-> [retrieved_at |-> isoformat(n)]]),
     Raises("use case failed in run " \o ToString(n)), Raises("")}

\* graph.invoke(initial_state, config) on a compiled graph with a
\* checkpointer: the channels the input names take the input's values, the
\* others keep what the thread's checkpoint holds
apply_input_missing_only(held, input) == held @@ input
apply_input(held, input) == input @@ held

\* a branch node: the guard on its argument, then the try/except around
\* the use case
branch_states(nd, st, n) ==
    IF nd = "research_etf" /\ falsy(st.etf_name)
    THEN {[st EXCEPT !.result = Absent,
                     !.error = "ETF name is required for research"]}
    ELSE IF nd = "market_outlook" /\ falsy(st.asset_class)
    THEN {[st EXCEPT !.result = Absent,
                     !.error = "Asset class is required for market outlook"]}
    ELSE {capture(st, uc) : uc \in UseCaseOutcomesOf(n)}

ThreadInit ==
    /\ checkpoints = [tid \in {"1"} |-> <<>>]
    /\ thread_run = 0
    /\ thread_config = Absent
    /\ held_before = Absent
    /\ thread_node = "idle"
    /\ thread_state = Absent
    /\ branch_write = Absent
    /\ thread_outcome = Absent
    /\ OutsideThreadIdle

\* run_analysis / get_history / research_etf / research_market_outlook up
\* to the entry node
ThreadInvoke ==
    /\ thread_node = "idle"
    /\ thread_run < MaxRuns
    /\ thread_run' = thread_run + 1
    /\ thread_config' = config
    /\ held_before' = checkpoints[config.configurable.thread_id]
    /\ \E inv \in PublicInvocations :
          thread_state' =
              apply_input(checkpoints[config.configurable.thread_id],
                          inv.input)
    /\ checkpoints' =
          [checkpoints EXCEPT ![config.configurable.thread_id] = thread_state']
    /\ thread_node' = "route_task"
    /\ branch_write' = Absent
    /\ thread_outcome' = Absent
    /\ UNCHANGED outside_thread

ThreadRouteTask ==
    /\ thread_node = "route_task"
    /\ thread_node' = TaskNode[route_to_task(thread_state)]
    /\ UNCHANGED <<checkpoints, thread_run, thread_config, held_before,
                   thread_state,
                   branch_write, thread_outcome, outside_thread>>

ThreadBranch ==
    /\ thread_node \in BranchNodes
    /\ \E st \in branch_states(thread_node, thread_state, thread_run) :
          /\ thread_state' = st
          /\ branch_write' = [result |-> st.result, error |-> st.error]
    /\ checkpoints' =
          [checkpoints EXCEPT ![thread_config.configurable.thread_id] =
              thread_state']
    /\ thread_node' = "finalize"
    /\ UNCHANGED <<thread_run, thread_config, held_before, thread_outcome,
                   outside_thread>>

ThreadFinalize ==
    /\ thread_node = "finalize"
    /\ thread_state' = finalize(thread_state, thread_run)
    /\ checkpoints' =
          [checkpoints EXCEPT ![thread_config.configurable.thread_id] =
              thread_state']
    /\ thread_node' = "END"
    /\ UNCHANGED <<thread_run, thread_config, held_before, branch_write,
                   thread_outcome,
                   outside_thread>>

\* the public operation's ending
ThreadReturn ==
    /\ thread_node = "END"
    /\ thread_outcome' = public_return(thread_state)
    /\ thread_node' = "idle"
    /\ UNCHANGED <<checkpoints, thread_run, thread_config, held_before,
                   thread_state,
                   branch_write, outside_thread>>

ThreadNext ==
    \/ ThreadInvoke
    \/ ThreadRouteTask
    \/ ThreadBranch
    \/ ThreadFinalize
    \/ ThreadReturn

SpecThread == ThreadInit /\ [][ThreadNext]_vars

(***************************************************************************)
(* application/mcp_client.py : MCPClientAdapter, and the tools of the      *)
(* servers under infrastructure/mcp_servers                                *)
(***************************************************************************)
\* a tool's parameters, and those among them without a default
tool(params, required) == [params |-> params, required |-> required]

\* @mcp.tool() functions of each server module
financial_server ==
    [get_momentum_ranking |-> tool({}, {}),
     get_etf_momentum |-> tool({"etf_name"}, {"etf_name"}),
     get_stooq_chart_url |-> tool({"months"}, {}),
     get_analysis_period |-> tool({}, {}),
     list_etfs |-> tool({}, {})]
search_server ==
    [search_web |-> tool({"query", "num_results"}, {"query"}),
     search_news |-> tool({"query", "num_results"}, {"query"}),
     search_etf_context |-> tool({"etf_name"}, {"etf_name"}),
     search_market_outlook |-> tool({"asset_class", "year"}, {"asset_class"}),
     search_multiple_etfs |-> tool({"etf_names"}, {"etf_names"}),
     list_available_etfs |-> tool({}, {})]
notification_server ==
    [send_email |->
         tool({"to_email", "subject", "content", "content_type"},
              {"to_email", "subject", "content"}),
     send_push_notification |->
         tool({"message", "title", "priority", "sound"}, {"message"}),
     send_signal_email |->
         tool({"to_email", "signal_type", "etf_name", "details"},
              {"to_email", "signal_type", "etf_name", "details"}),
     send_signal_push |->
         tool({"signal_type", "etf_name", "details", "priority"},
              {"signal_type", "etf_name", "details"}),
     send_signal_all_channels |->
         tool({"to_email", "signal_type", "etf_name", "details",
               "push_priority"},
              {"to_email", "signal_type", "etf_name", "details"}),
     check_notification_status |-> tool({}, {})]
mcp_servers ==
    [financial_server |-> financial_server,
     search_server |-> search_server,
     notification_server |-> notification_server]

\* an adapter method: the server module its command starts, the tool name
\* it passes to call_tool and the names of the arguments
adapter_call(server, name, arguments) ==
    [server |-> server, tool |-> name, arguments |-> arguments]
MCPClientAdapter ==
    [get_momentum_ranking |->
         adapter_call("financial_server", "get_momentum_ranking", {}),
     get_etf_price_data |->
         adapter_call("financial_server", "get_etf_price_data",
                      {"etf_name", "start_date", "end_date"}),
     search_web |->
         adapter_call("search_server", "search_web", {"query", "num_results"}),
     search_etf_context |->
         adapter_call("search_server", "search_etf_context", {"etf_name"}),
     search_market_outlook |->
         adapter_call("search_server", "search_market_outlook",
                      {"asset_class", "year"}),
     send_email |->
         adapter_call("notification_server", "send_email",
                      {"to_email", "subject", "content"}),
     send_signal_email |->
         adapter_call("notification_server", "send_signal_email",
                      {"to_email", "signal_type", "etf_name", "details"}),
     send_signal_push |->
         adapter_call("notification_server", "send_signal_push",
                      {"signal_type", "etf_name", "details", "priority"}),
     check_notification_status |->
         adapter_call("notification_server", "check_notification_status", {})]

\* the server's answer to call_tool(name, arguments)
call_tool(server, name, arguments) ==
    IF name \notin DOMAIN mcp_servers[server]
    THEN [isError |-> TRUE, text |-> "Unknown tool: " \o name]
    ELSE IF ~(mcp_servers[server][name].required \subseteq arguments)
    THEN [isError |-> TRUE, text |-> "Error executing tool " \o name]
    ELSE [isError |-> FALSE, text |-> name]

McpInit ==
    /\ mcp_pc = "idle"
    /\ mcp_method = None
    /\ mcp_server = None
    /\ mcp_reply = Absent
    /\ mcp_log = <<>>
    /\ OutsideMcpIdle

\* an adapter method up to `async with self._connect_to_server(...)`: the
\* server process is spawned and the session initialized
McpConnect ==
    /\ mcp_pc = "idle"
    /\ Len(mcp_log) < MaxRuns
    /\ \E m \in DOMAIN MCPClientAdapter :
          /\ mcp_method' = m
          /\ mcp_server' = MCPClientAdapter[m].server
    /\ mcp_pc' = "connected"
    /\ mcp_reply' = Absent
    /\ UNCHANGED <<mcp_log, outside_mcp>>

\* result = await session.call_tool(...)
McpCallTool ==
    /\ mcp_pc = "connected"
    /\ mcp_reply' = call_tool(mcp_server, MCPClientAdapter[mcp_method].tool,
                              MCPClientAdapter[mcp_method].arguments)
    /\ mcp_pc' = "called"
    /\ UNCHANGED <<mcp_method, mcp_server, mcp_log, outside_mcp>>

\* return result.content[0].text; the session and the process end
McpReturn ==
    /\ mcp_pc = "called"
    /\ mcp_log' = Append(mcp_log, [method |-> mcp_method,
                                   returned |-> mcp_reply.text])
    /\ mcp_server' = None
    /\ mcp_pc' = "idle"
    /\ UNCHANGED <<mcp_method, mcp_reply, outside_mcp>>

McpNext == McpConnect \/ McpCallTool \/ McpReturn

SpecMcp == McpInit /\ [][McpNext]_vars

(***************************************************************************)
(* Claims about the strategy (checked under SpecStrategy).                 *)
(***************************************************************************)
IndexOf(pds, e) == CHOOSE i \in 1..Len(pds) : pds[i].etf = e

\* C1: requires_rebalance is true exactly when previous is absent or differs
\* from the ranking's winner; the action is BUY <winner> when previous is
\* absent, HOLD <winner> when previous equals the winner, and
\* SWITCH <previous> -> <winner> when previous differs from the winner.
C1_SignalAction ==
    signal # Absent =>
        LET w == ranking.rankings[1][1]
        IN  /\ signal.recommended_etf = w
            /\ signal.previous_etf = previous_etf
            /\ signal.requires_rebalance
                   <=> (previous_etf = None \/ previous_etf # w)
            /\ previous_etf = None => action(signal) = <<"BUY", w>>
            /\ previous_etf = w => action(signal) = <<"HOLD", w>>
            /\ (previous_etf # None /\ previous_etf # w)
                   => action(signal) = <<"SWITCH", previous_etf, "->", w>>

C1_Witness ==
    /\ signal # Absent
    /\ previous_etf \in ETF
    /\ previous_etf # signal.recommended_etf
    /\ action(signal)[1] = "SWITCH"

\* C2: on every accepted input the ranking is a permutation of the input
\* (ETF, momentum) pairs in non-increasing momentum order, pairs of equal
\* momentum keep their input order, and the winner has maximal momentum.
C2_RankingSorted ==
    (ranking # Absent /\ ranking.ok) =>
        LET r == ranking.rankings
            n == Len(price_data)
        IN  /\ Len(r) = n
            /\ \A i \in 1..n :
                   \E j \in 1..n :
                       r[j] = <<price_data[i].etf,
                                Frac(price_data[i].end_price
                                       - price_data[i].start_price,
                                     price_data[i].start_price)>>
            /\ \A i, j \in 1..n : i # j => r[i][1] # r[j][1]
            /\ \A i, j \in 1..n :
                   i < j => r[i][2].num * r[j][2].den
                              >= r[j][2].num * r[i][2].den
            /\ \A i, j \in 1..n :
                   (i < j /\ r[i][2] = r[j][2])
                      => IndexOf(price_data, r[i][1])
                           < IndexOf(price_data, r[j][1])
            /\ \A i \in 1..n :
                   (price_data[i].end_price - price_data[i].start_price)
                        * price_data[IndexOf(price_data, winner(ranking))].start_price
                     <= (price_data[IndexOf(price_data, winner(ranking))].end_price
                          - price_data[IndexOf(price_data, winner(ranking))].start_price)
                        * price_data[i].start_price

\* a ranking with a tie between observations of different prices, whose
\* order differs from the input order
C2_Witness ==
    /\ ranking # Absent
    /\ ranking.ok
    /\ \E i, j \in 1..Len(price_data) :
          /\ i < j
          /\ price_data[i].start_price # price_data[j].start_price
          /\ momentum(price_data[i]) = momentum(price_data[j])
    /\ \E i \in 1..Len(price_data) : ranking.rankings[i][1] # price_data[i].etf

\* the input holds one observation per catalog ETF, none repeated, and all
\* start dates and all end dates lie within 10 days of each other
Accepted(pds) ==
    /\ \A e \in ETF : Cardinality({i \in 1..Len(pds) : pds[i].etf = e}) = 1
    /\ \A i, j \in 1..Len(pds) :
          /\ pds[i].start_date - pds[j].start_date <= 10
          /\ pds[i].end_date - pds[j].end_date <= 10

Unobserved(pds) == {e \in ETF : \A i \in 1..Len(pds) : pds[i].etf # e}

NamesMissing(rk, pds) ==
    /\ ~rk.ok
    /\ rk.error = "Missing data for ETFs"
    /\ rk.names = Unobserved(pds)

\* C3 as stated: calculate_ranking succeeds exactly on the accepted inputs,
\* and whenever a catalog ETF has no observation the failure names the
\* missing ETFs.
C3_AsClaimed ==
    ranking # Absent =>
        /\ ranking.ok <=> Accepted(price_data)
        /\ Unobserved(price_data) # {} => NamesMissing(ranking, price_data)

\* C3 amended: calculate_ranking succeeds exactly on the accepted inputs;
\* a list of another length than four fails naming the catalog ETFs that
\* have no observation; a list of four with a repeated ETF fails with the
\* duplicate-entries failure, which names no ETF.
C3_Validation ==
    ranking # Absent =>
        /\ ranking.ok <=> Accepted(price_data)
        /\ Len(price_data) # 4 => NamesMissing(ranking, price_data)
        /\ (Len(price_data) = 4 /\ Unobserved(price_data) # {})
              => /\ ~ranking.ok
                 /\ ranking.error = "Duplicate ETF entries in price_data"

C3_Witness ==
    /\ ranking # Absent
    /\ ~ranking.ok
    /\ Len(price_data) = 4
    /\ Unobserved(price_data) = {}
    /\ \E i, j \in 1..4 : price_data[i].end_date - price_data[j].end_date = 11
    /\ \A i, j \in 1..4 : price_data[i].start_date - price_data[j].start_date <= 10

(***************************************************************************)
(* Claims about the composite market-data provider (under SpecMarket).     *)
(***************************************************************************)
\* C4: get_price_data(X): whenever the primary fails for X (whatever the
\* kind of failure) and the fallback succeeds, the composite returns the
\* fallback's observation without raising; whenever both fail (whatever the
\* kind of failure) it raises one combined failure naming both sources.
C4_AsClaimed ==
    (md_request # Absent /\ md_request.op = "get_price_data") =>
        LET e == md_request.etf
        IN  /\ (primary[e].kind # "ok" /\ fallback[e].kind = "ok")
                  => (~md_result.raised /\ md_result.data = fallback[e].data)
            /\ (primary[e].kind # "ok" /\ fallback[e].kind # "ok")
                  => (md_result.raised
                        /\ md_result.names = {"Stooq", "Yahoo"})

\* C5: get_all_etf_data, for either value of fail_fast: when the primary's
\* best-effort batch returns a non-empty proper subset of the catalog, the
\* composite asks the fallback for each missing ETF and for no other, and
\* returns the primary's observations together with every fallback
\* observation that succeeded.
C5_AsClaimed ==
    (md_request # Absent /\ md_request.op = "get_all_etf_data") =>
        LET got == {e \in ETF : primary[e].kind = "ok"}
        IN  (got # {} /\ got # ETF) =>
               /\ ~md_result.raised
               /\ Range(md_result.asked) = ETF \ got
               /\ Range(md_result.data) =
                     {primary[e].data : e \in got}
                       \cup {fallback[e].data :
                               e \in {x \in ETF \ got : fallback[x].kind = "ok"}}

(***************************************************************************)
(* Claims about an analysis invocation (under SpecRun).                    *)
(***************************************************************************)
\* C6: whenever the providers deliver price data for at least one ETF,
\* run_analysis returns a signal instead of failing.
C6_AsClaimed ==
    (last_run # Absent /\ last_run.obtained >= 1) =>
        last_run.analysis = "returned"

\* C7: whatever the research service or the database does, execute does
\* not raise once run_analysis has returned a signal.
C7_AsClaimed ==
    (last_run # Absent /\ last_run.analysis = "returned") =>
        last_run.execute = "returned"

\* C8: whenever the front end shows an error for an analysis invocation,
\* the signals table is what it was before that invocation.
C8_AsClaimed ==
    (console # Absent /\ console.shown = "error") => signals = rows_before

\* C9: when an earlier run saved a signal recommending X, the signal of the
\* next run carries X as its previous ETF: its action is HOLD X when the
\* winner is X again and SWITCH X -> Y when the winner is another ETF Y.
C9_AsClaimed ==
    (last_run # Absent /\ last_run.analysis = "returned"
        /\ rows_before # <<>>) =>
        LET X == row_to_signal(rows_before[Len(rows_before)]).recommended_etf
            Y == last_run.signal.recommended_etf
        IN  /\ last_run.signal.previous_etf = X
            /\ action(last_run.signal) =
                  IF Y = X THEN <<"HOLD", X>> ELSE <<"SWITCH", X, "->", Y>>

\* C22: in the response of AnalyzeAndRecommendUseCase.execute the metadata
\* field saved_to_db is true exactly when the signal was persisted in this
\* run: false when save_to_db was false, and false when the save was
\* attempted and failed.  Stated of the metadata entry as execute computes
\* it from its arguments, whether or not the response around it comes about.
C22_AsClaimed ==
    (last_run # Absent /\ last_run.analysis = "returned") =>
        response_metadata(state.include_research, state.save_to_db, <<>>,
                          Absent, clock).saved_to_db
            = (signals # rows_before)

\* the same of the response the caller receives
C22_ResponseAsClaimed ==
    (last_run # Absent /\ last_run.analysis = "returned") =>
        /\ last_run.execute = "returned"
        /\ state.result.metadata.saved_to_db = (signals # rows_before)

(***************************************************************************)
(* Claims about the signal repository (under SpecRepo).                    *)
(***************************************************************************)
\* C10: after any sequence of saves, get_latest returns absent when nothing
\* was saved, and otherwise a signal equal to a saved signal of greatest
\* creation timestamp in its recommended ETF, its ranking (same pairs in
\* the same order), its previous ETF, its requires_rebalance flag and its
\* creation timestamp.
C10_LatestRoundTrip ==
    latest.called =>
        IF saved = <<>> THEN latest.value = Absent
        ELSE /\ latest.value # Absent
             /\ \E i \in 1..Len(saved) :
                   /\ \A j \in 1..Len(saved) :
                         saved[j].created_at <= saved[i].created_at
                   /\ latest.value.recommended_etf = saved[i].recommended_etf
                   /\ latest.value.ranking.rankings = saved[i].ranking.rankings
                   /\ latest.value.previous_etf = saved[i].previous_etf
                   /\ latest.value.requires_rebalance
                         = saved[i].requires_rebalance
                   /\ latest.value.created_at = saved[i].created_at

\* the latest signal was saved before an older one, has a previous ETF and a
\* fractional timestamp within the same second as the older one
C10_Witness ==
    /\ latest.called
    /\ Len(saved) = 2
    /\ saved[1].created_at > saved[2].created_at
    /\ saved[1].created_at \div 2 = saved[2].created_at \div 2
    /\ saved[1].previous_etf # None
    /\ ~saved[1].requires_rebalance
    /\ latest.value = saved[1]

\* C11: after n saves, get_history(limit) returns exactly min(limit, n)
\* signals; they are saved signals, each taken once, listed newest first,
\* and no saved signal left out is newer than one that is listed.
C11_HistoryNewestFirst ==
    history.called =>
        LET n == Len(saved)
            m == IF history.limit < n THEN history.limit ELSE n
            got == history.value
        IN  /\ Len(got) = m
            /\ \E idx \in [1..m -> 1..n] :
                  /\ \A a, b \in 1..m : a # b => idx[a] # idx[b]
                  /\ \A k \in 1..m : got[k] = saved[idx[k]]
                  /\ \A k \in 1..(m - 1) :
                        got[k].created_at >= got[k + 1].created_at
                  /\ \A j \in (1..n) \ Range(idx) : \A k \in 1..m :
                        saved[j].created_at <= got[k].created_at

\* two signals saved oldest-last, one asked for: the first-saved, newer one
\* comes back and the older one is cut off by the limit
C11_Witness ==
    /\ history.called
    /\ history.limit = 1
    /\ Len(saved) = 2
    /\ saved[1].created_at > saved[2].created_at
    /\ history.value = <<saved[1]>>

(***************************************************************************)
(* Claims about the research cache (under SpecCache).                      *)
(***************************************************************************)
\* C12: a get(k) issued less than ttl_hours after the latest set(k, p), with
\* no delete or clear of k in between, returns p; a get(k) issued after
\* ttl_hours have elapsed since that set returns absent.
C12_AsClaimed ==
    (cache_got.called /\ last_set[cache_got.key] # Absent) =>
        LET elapsed == cache_got.at - last_set[cache_got.key].at
        IN  /\ elapsed < ttl => cache_got.value = last_set[cache_got.key].payload
            /\ elapsed > ttl => cache_got.value = Absent

\* the second half of C12 alone: once ttl_hours have elapsed the get returns
\* absent
C12_LateAsClaimed ==
    (cache_got.called /\ last_set[cache_got.key] # Absent) =>
        (cache_got.at - last_set[cache_got.key].at > ttl
            => cache_got.value = Absent)

(***************************************************************************)
(* Claims about the research service (under SpecResearch).                 *)
(***************************************************************************)
\* C13: research_etf never raises; when a step it performs fails (the cache
\* lookup, the search, the write-back to the cache) it returns the inline
\* error payload with the ETF's name, its ticker and the error string.
C13_AsClaimed ==
    research_result # Absent =>
        LET r == research_request
            failed ==
                IF r.use_cache /\ r.cache_read.raises THEN r.cache_read
                ELSE IF r.use_cache /\ cached_truthy(r.cache_read.value)
                THEN Returns(Absent)
                ELSE IF r.search.raises THEN r.search
                ELSE r.cache_write
        IN  /\ ~research_result.raises
            /\ failed.raises =>
                  research_result.value =
                      [error |-> failed.message,
                       etf_name |-> display_name[r.etf],
                       etf_ticker |-> ticker_yfinance[r.etf]]

(***************************************************************************)
(* Claims about the composite search provider (under SpecSearch).          *)
(***************************************************************************)
\* C14: whatever the two sources returned, the list search / search_news
\* returns holds no URL twice, has at most num_results entries, and lists in
\* their serper-then-brave order entries that are each the first to carry
\* their URL, none that comes before a listed one being left out.
C14_Deduplicated ==
    search_result # Absent =>
        LET all == search_result.from_serper \o search_result.from_brave
            out == search_result.value
            first == {i \in 1..Len(all) :
                        /\ all[i].url # ""
                        /\ \A j \in 1..(i - 1) : all[j].url # all[i].url}
        IN  /\ Len(out) <= search_request.num_results
            /\ \A a, b \in 1..Len(out) : a # b => out[a].url # out[b].url
            /\ \E idx \in [1..Len(out) -> 1..Len(all)] :
                  /\ \A k \in 1..Len(out) :
                        idx[k] \in first /\ out[k] = all[idx[k]]
                  /\ \A k \in 1..(Len(out) - 1) : idx[k] < idx[k + 1]
                  /\ \A i \in first : \A k \in 1..Len(out) :
                        i < idx[k] => i \in Range(idx)
            /\ Len(out) < search_request.num_results =>
                  Len(out) = Cardinality(first)

\* both sources returned an entry for the same URL and the entry of the
\* first source is the one returned
C14_Witness ==
    /\ search_result # Absent
    /\ \E i \in 1..Len(search_result.from_serper) :
       \E j \in 1..Len(search_result.from_brave) :
          /\ search_result.from_serper[i].url = search_result.from_brave[j].url
          /\ search_result.from_serper[i].url # ""
          /\ \E k \in 1..Len(search_result.value) :
                search_result.value[k] = search_result.from_serper[i]

\* the queries search put to a source, in the order it put them
QueriesTo(source) ==
    {k \in 1..Len(search_result.queries) :
        search_result.queries[k].source = source}

RunPaths == {<<"route_task", b, "finalize">> : b \in BranchNodes}

IsPrefix(a, b) == Len(a) <= Len(b) /\ a = SubSeq(b, 1, Len(a))

\* C15: whatever the task name and however the use case ends, a run
\* executes route_task, then exactly one branch node, then finalize, and
\* then has ended with completed = true; no run stays before finalize and
\* no node runs after it.
C15_RunShape ==
    /\ [](/\ \E path \in RunPaths : IsPrefix(visited, path)
          /\ agent_node = "END" =>
                (visited \in RunPaths /\ agent_state.completed)
          /\ outcome # Absent => agent_node = "END")
    /\ [](agent_node = "route_task" =>
             <>[](agent_node = "END" /\ visited \in RunPaths
                    /\ agent_state.completed))

\* a run given an unrecognized task name has ended, after a failing use case
C15_Witness ==
    /\ agent_node = "END"
    /\ invocation.input.task \notin ValidTasks
    /\ use_case # Absent
    /\ use_case.raises
    /\ visited = <<"route_task", "analyze_and_recommend", "finalize">>

\* C16: once a branch node has run, result and error are never both set:
\* a failed branch has set error and left result absent, a branch that
\* succeeded has set result and left error absent.
C16_ResultOrError ==
    Len(visited) >= 2 =>
        /\ ~(agent_state.result # Absent /\ agent_state.error # None)
        /\ (use_case # Absent /\ use_case.raises) =>
              (agent_state.result = Absent
                 /\ agent_state.error = use_case.message)
        /\ (use_case # Absent /\ ~use_case.raises) =>
              (agent_state.result # Absent /\ agent_state.error = None
                 /\ agent_state.result.data = use_case.value.data)
        /\ use_case = Absent =>
              (agent_state.result = Absent /\ agent_state.error # None)

\* finalize has stamped the result of a use case that succeeded
C16_Witness ==
    /\ agent_node = "END"
    /\ use_case # Absent
    /\ ~use_case.raises
    /\ agent_state.result.metadata.task = "history"
    /\ agent_state.error = None

\* C17: when the use case raised, whatever its message (the empty one
\* included), the public operation raises a failure carrying that message;
\* when the use case returned, the operation returns the result dictionary.
C17_AsClaimed ==
    (outcome # Absent /\ use_case # Absent) =>
        IF use_case.raises THEN outcome = Raises(use_case.message)
        ELSE outcome = Returns(agent_state.result)
             /\ agent_state.result # Absent

\* C18: a task name that is none of the four recognized ones is routed to
\* the analyze branch and the run completes; each recognized name is routed
\* to its own branch.
C18_Routing ==
    /\ Len(visited) >= 2 =>
          visited[2] =
             CASE invocation.input.task = "analyze" -> "analyze_and_recommend"
               [] invocation.input.task = "history" -> "get_history"
               [] invocation.input.task = "research_etf" -> "research_etf"
               [] invocation.input.task = "market_outlook" -> "market_outlook"
               [] OTHER -> "analyze_and_recommend"
    /\ agent_node = "END" => (Len(visited) = 3 /\ agent_state.completed)

\* the run of an unrecognized task name went through the analyze branch
C18_Witness ==
    /\ agent_node = "END"
    /\ invocation.input.task = "rebalance"
    /\ visited[2] = "analyze_and_recommend"
    /\ agent_state.completed

(***************************************************************************)
(* Claims about the notification server (checked under SpecNotify).        *)
(***************************************************************************)
\* the channels that are configured, and what each channel's send met
ConfiguredChannels ==
    (IF sendgrid_constructs(settings) THEN {"email"} ELSE {})
    \cup (IF pushover_constructs(settings) THEN {"push"} ELSE {})
SendSucceeds(ch) ==
    /\ ch \in ConfiguredChannels
    /\ \E i \in 1..stop_after_attempt : notify_request[ch][i] = "ok"

\* C19: whatever each channel meets (not configured, the send succeeds, the
\* send fails after its retries are exhausted), send_signal_all_channels
\* returns a report and does not raise; every configured channel is
\* attempted; each channel's entry says attempted / success / error; and
\* overall_success is true exactly when at least one channel succeeded.
C19_AsClaimed ==
    notify_outcome # Absent =>
       /\ ~notify_outcome.result.raises
       /\ notify_outcome.attempted = ConfiguredChannels
       /\ \A ch \in {"email", "push"} :
             LET e == notify_outcome.result.value[ch]
             IN  /\ e.attempted = (ch \in ConfiguredChannels)
                 /\ e.success = SendSucceeds(ch)
                 /\ (e.error = None) = e.success
       /\ notify_outcome.result.value.overall_success =
             (\E ch \in {"email", "push"} : SendSucceeds(ch))

(***************************************************************************)
(* Claims about the migrations (checked under SpecMigrate).                *)
(***************************************************************************)
\* C20: on a fresh database one run of run_migrations ends with the schema
\* version equal to the target version (2); a second run directly after it
\* leaves the schema version unchanged, applies no migration and records no
\* new schema_version row.
C20_AsClaimed ==
    migration_run # Absent =>
       /\ (migration_run.fresh /\ migration_run.number = 1) =>
             /\ ~migration_run.result.raises
             /\ migration_run.versions = {CURRENT_VERSION}
       /\ migration_run.number = 2 =>
             /\ ~migration_run.result.raises
             /\ migration_run.applied = <<>>
             /\ migration_run.versions =
                   get_schema_version(Database(migration_run.path),
                                      migration_run.before)
             /\ files[migration_run.path].schema_version =
                   migration_run.before.schema_version

(***************************************************************************)
(* Claims about MomentumRanking's construction (checked under              *)
(* SpecConstruct).                                                         *)
(***************************************************************************)
\* C21: the construction of a MomentumRanking fails for every sequence that
\* does not contain exactly one entry per catalog ETF: the empty sequence, a
\* sequence of another length than four, and a sequence of four entries in
\* which some ETF is repeated.
C21_AsClaimed ==
    (constructed # Absent /\ ~one_entry_per_etf(rankings_given))
        => constructed.raises

\* the part of C21 the code does enforce: a sequence of another length than
\* four, the empty one included, is rejected
C21_LengthChecked ==
    (constructed # Absent /\ Len(rankings_given) # Len(ETFOrder))
        => constructed.raises

(***************************************************************************)
(* Claims about the market-data sources' fetches (checked under SpecFetch).*)
(***************************************************************************)
\* the attempts that fail with a connection or timeout error before the
\* first attempt that does not (all of them when each one does)
FailuresFirst ==
    {k \in 0..stop_after_attempt :
        /\ \A i \in 1..k : fetch_request.outcomes[i] \in NetworkFailures
        /\ k < stop_after_attempt =>
              fetch_request.outcomes[k + 1] \notin NetworkFailures}

\* C23: when the network fetch of an ETF's history fails with a connection
\* or timeout error it is attempted again, up to 3 attempts in total, before
\* the failure is surfaced as the provider-specific error; a fetch that
\* succeeds on the second or third attempt yields the observation.
C23_AsClaimed ==
    fetch_result # Absent =>
       \A k \in FailuresFirst :
          IF k = stop_after_attempt
          THEN /\ fetch_result.attempts = stop_after_attempt
               /\ fetch_result.result.raises
               /\ fetch_result.result.type
                     = provider_error(fetch_request.provider)
          ELSE /\ fetch_result.attempts = k + 1
               /\ fetch_request.outcomes[k + 1] = "ok"
                     => ~fetch_result.result.raises

\* what the code does instead: a single attempt, whose failure of any kind
\* is surfaced as the provider-specific error
C23_SingleAttempt ==
    fetch_result # Absent =>
       /\ fetch_result.attempts = 1
       /\ fetch_result.result.raises =>
             fetch_result.result.type = provider_error(fetch_request.provider)

(***************************************************************************)
(* Claims about the schema version (checked under SpecSchemaVersion).      *)
(***************************************************************************)
\* C24: get_schema_version returns the maximum version among all recorded
\* schema_version rows, whatever their applied-at values (equal timestamps
\* included), and 0 when there is none; across any sequence of migration
\* runs the returned version never decreases.
C24_AsClaimed ==
    version_read # Absent =>
       /\ version_read.version
             = max_version(files[version_read.path].schema_version)
       /\ version_read.version >= version_read.previous

\* a manager whose db object does have a connection
ConnectedDatabase(db_path) == [db_path |-> db_path, conn |-> "conn"]

\* the first part of C24 of the query alone, as it would answer over a
\* connection: the maximum version among the rows
C24_QueryAsClaimed ==
    \A p \in Paths :
       get_schema_version(ConnectedDatabase(p), files[p])
          = {max_version(files[p].schema_version)}

(***************************************************************************)
(* Claims about the research service over its cache (checked under         *)
(* SpecService).                                                           *)
(***************************************************************************)
\* C25: with use_cache true, after a call for ETF X obtained a result from
\* the search provider and wrote it to the cache, every later call for X
\* before the entry expires (less than ttl_hours after the write) returns an
\* equal payload and makes no call to the search provider; on a cache miss
\* the search provider is called exactly once and its result is written to
\* the cache before it is returned.  Stated of the calls whose cache lookup
\* itself does not fail.
C25_AsClaimed ==
    (service_call # Absent /\ service_call.use_cache
        /\ ~service_call.cache_read.raises) =>
       /\ (service_call.written_before # Absent
             /\ service_call.at - service_call.written_before.at < ttl) =>
             /\ service_call.result = Returns(service_call.written_before.payload)
             /\ service_call.searches = 0
       /\ service_call.cache_read.value = Absent =>
             /\ service_call.searches = 1
             /\ ~service_call.result.raises
             /\ "error" \notin DOMAIN service_call.result.value =>
                   /\ service_call.result = service_call.search
                   /\ research_cache[service_call.etf] # Absent
                   /\ json_loads(research_cache[service_call.etf].research_data)
                         = service_call.search.value

\* the second half of C25 alone: what a cache miss does
C25_MissAsClaimed ==
    (service_call # Absent /\ service_call.use_cache
        /\ ~service_call.cache_read.raises
        /\ service_call.cache_read.value = Absent) =>
       /\ service_call.searches = 1
       /\ ~service_call.result.raises
       /\ "error" \notin DOMAIN service_call.result.value =>
             /\ service_call.result = service_call.search
             /\ research_cache[service_call.etf] # Absent
             /\ json_loads(research_cache[service_call.etf].research_data)
                   = service_call.search.value

\* C30: research_etf writes to the cache only a payload that the search
\* provider returned: whenever a call changes the entry of its ETF, the entry
\* then holds the search result of that call; and a call that returns the
\* inline error payload leaves the entry as it was before the call.
C30_OnlySearchResultsCached ==
    service_call # Absent =>
       /\ research_cache[service_call.etf] # service_call.entry_before =>
             /\ ~service_call.search.raises
             /\ json_loads(research_cache[service_call.etf].research_data)
                   = service_call.search.value
       /\ (~service_call.result.raises
             /\ "error" \in DOMAIN service_call.result.value) =>
             research_cache[service_call.etf] = service_call.entry_before

\* a call, made over an entry written earlier, whose search succeeded and
\* whose write-back failed: it returned the error payload
C30_Witness ==
    /\ service_call # Absent
    /\ ~service_call.result.raises
    /\ "error" \in DOMAIN service_call.result.value
    /\ ~service_call.search.raises
    /\ service_call.searches = 1
    /\ service_call.entry_before # Absent
    /\ research_cache[service_call.etf] = service_call.entry_before

(***************************************************************************)
(* Claims about get_agent (checked under SpecLazy).                        *)
(***************************************************************************)
\* C27: within one process at most one MomentumAgent (and so one checkpoint
\* connection) is ever constructed, also when several request handlers call
\* get_agent at the same time before the first construction has finished;
\* every caller receives that same instance.
C27_AsClaimed ==
    /\ agents_built <= 1
    /\ \A g, h \in Handlers :
          (handler_pc[g] = "done" /\ handler_pc[h] = "done")
             => handler_agent[g] = handler_agent[h]

(***************************************************************************)
(* Claims about successive agent runs (checked under SpecThread).          *)
(***************************************************************************)
\* C28: every run on one agent uses the checkpoint thread identifier "1",
\* yet at the entry node of every run the result slot and the error slot
\* are absent and completion is false, whatever the previous run's task and
\* outcome; the outcome of a run never contains the result or the error of
\* an earlier run.
C28_FreshEntry ==
    /\ thread_config # Absent => thread_config.configurable.thread_id = "1"
    /\ thread_node = "route_task" =>
          /\ thread_state.result = Absent
          /\ thread_state.error = None
          /\ thread_state.completed = FALSE
    /\ thread_outcome # Absent =>
          /\ branch_write # Absent
          /\ IF thread_outcome.raises
             THEN thread_outcome.message = branch_write.error
             ELSE IF thread_outcome.value = Absent
             THEN branch_write.result = Absent
             ELSE /\ thread_outcome.value.run = thread_run
                  /\ thread_outcome.value.data = branch_write.result.data

\* a run other than the first stands at its entry node, and the checkpoint
\* it began from held the finished previous run: a result or an error, and
\* completion true
C28_Witness ==
    /\ thread_run >= 2
    /\ thread_node = "route_task"
    /\ held_before.completed = TRUE
    /\ (held_before.result # Absent \/ truthy(held_before.error))

(***************************************************************************)
(* Claims about the tool-invocation client adapter (checked under SpecMcp).*)
(***************************************************************************)
\* C29: every tool name an adapter method invokes is a tool of the server
\* process that method spawns, and every argument name it passes is a
\* parameter of that tool; no adapter method calls a tool its target server
\* does not define.
C29_AsClaimed ==
    mcp_pc = "called" =>
       /\ MCPClientAdapter[mcp_method].tool \in DOMAIN mcp_servers[mcp_server]
       /\ MCPClientAdapter[mcp_method].arguments
             \subseteq mcp_servers[mcp_server]
                          [MCPClientAdapter[mcp_method].tool].params

\* the same of every adapter method but get_etf_price_data, whose calls
\* the server also accepts
C29_OtherMethods ==
    (mcp_pc = "called" /\ mcp_method # "get_etf_price_data") =>
       /\ MCPClientAdapter[mcp_method].tool \in DOMAIN mcp_servers[mcp_server]
       /\ MCPClientAdapter[mcp_method].arguments
             \subseteq mcp_servers[mcp_server]
                          [MCPClientAdapter[mcp_method].tool].params
       /\ ~mcp_reply.isError

=============================================================================
